---- MODULE Spec2Model ----
(***************************************************************************)
(* NewsQuant: news-driven signal engine and its backtest.                  *)
(*                                                                         *)
(* The module holds several specifications over one set of variables, one  *)
(* per part of the program:                                                *)
(*   SpecWindow      the evaluation window of optimize_thresholds.main and *)
(*                   validate_signals.run_validation                       *)
(*   SpecAgg         the article store and the per-stock daily aggregation *)
(*   SpecReturns     the price caches and the forward returns of a signal  *)
(*   SpecValidation  validate_signals.run_validation, day by day           *)
(*   SpecClassify    the buy/sell/watch classification of one aggregate    *)
(*   SpecGrid        optimize_thresholds.main from the returns to the grid *)
(*                   search                                                *)
(*   SpecRuns        successive runs of optimize_thresholds.main over one  *)
(*                   price cache file                                      *)
(*   SpecFetch       the price provider page by page, as the backtests     *)
(*                   call it                                               *)
(*   SpecAdjust      the price-reaction adjusters on drawn inputs          *)
(*   SpecVolume      the volume signal on drawn counts and averages        *)
(*   SpecSentiment   the sentiment analyzer on drawn titles and contents   *)
(*   SpecNegation    the keyword count with negation on drawn texts        *)
(*   SpecCancel      one grid search, combination by combination           *)
(*   SpecSched       NewsScheduler.start() and its one-minute job          *)
(*   SpecStore       insert_news, insert_news_batch and reprocess_data     *)
(*   SpecReplay      one day's articles under the live analyzer and under  *)
(*                   the backtest                                          *)
(* A specification leaves the variables of the other parts at their        *)
(* initial (empty) values.                                                 *)
(***************************************************************************)
EXTENDS Integers, Sequences, FiniteSets, TLC

VARIABLES
    \* --- evaluation window (scripts/optimize_thresholds.py, scripts/validate_signals.py)
    day_count,      \* news table, per calendar day: rows with non-empty related_stocks
    trading_days,   \* result of get_trading_days
    signal_stats,   \* main: the days kept for signal generation (keys of the dict)
    signal_days,    \* run_validation: the days kept for signal generation
    holding_days,   \* run_validation: its holding_days argument
    wpc,            \* which of the two programs has run: "init", "main", "validation"
    \* --- article store and aggregation (news_scraper/database.py, trading_analyzer.py)
    news,           \* the rows of the news table, in insertion order
    today,          \* datetime.now(), as a calendar day
    result,         \* the value the last aggregation call returned
    market,         \* the price provider: per stock code, its daily bars up to now
    _volume_cache,          \* TradingAnalyzer._volume_cache
    _volume_cache_loaded,   \* TradingAnalyzer._volume_cache_loaded
    \* --- the backtests' price caches (scripts/optimize_thresholds.py, validate_signals.py)
    price_cache_pkl,    \* the file scripts/price_cache.pkl: the dict pickled in it
    price_cache,        \* run_validation's price_cache dict
    \* --- validate_signals.run_validation
    _volume_avg_cache,  \* validate_signals._volume_avg_cache
    _volume_loaded,     \* validate_signals._volume_loaded
    val_run,            \* the run in progress: pc, signal days left, holding_days
    prev,               \* per date, what the analysis of the date returned before
    \* --- the classifier (news_scraper/trading_analyzer.py)
    agg,                \* the stock-day aggregate handed to the classifier
    \* --- optimize_thresholds.main after the statistics are extracted
    grid_pc,            \* the step main has reached
    daily_stats,        \* the signal_stats dict: date -> the statistics of its stocks
    returns_map,        \* precompute_returns: (date, stock_code) -> {hd: return}
    benchmark,          \* calc_benchmark: {hd: mean return}
    buy_results,        \* grid_search_buy's results
    sell_results,       \* grid_search_sell's results
    \* --- successive runs of scripts/optimize_thresholds.py
    opt_run,            \* the last run of main: its arguments and the cache it used
    pkl_period,         \* history: --start/--end of the run that wrote price_cache.pkl
    \* --- the price provider seen from the backtests
    attempts,           \* history: per stock code, the calls of get_daily_price so far
    \* --- the functions checked on their own
    args,               \* the arguments of the function under check
    \* --- one grid search of scripts/optimize_thresholds.py, combination by combination
    combo_k,            \* how many combinations the loop has finished
    loop_locals,        \* the loop's local variables as the last iteration left them
    full_run,           \* history: the inputs at the call, and what an uninterrupted run returns
    \* --- NewsScheduler (news_scraper/scheduler.py)
    clock,              \* datetime.now(): minutes since Monday 00:00 of the first week
    last_collection_time,   \* None (<<>>) or <<minutes>>
    collection_interval,    \* minutes
    collections,        \* history: when collect_all_news ran
    \* --- the calls made on the article store
    insert_calls        \* history: the news_id and the return value of every insert_news

windowVars == <<day_count, trading_days, signal_stats, signal_days, holding_days, wpc>>

aggVars == <<news, today, result, market, _volume_cache, _volume_cache_loaded>>

cacheVars == <<price_cache_pkl, price_cache>>

valVars == <<_volume_avg_cache, _volume_loaded, val_run, prev>>

classifyVars == <<agg>>

gridVars == <<grid_pc, daily_stats, returns_map, benchmark, buy_results, sell_results>>

runVars == <<opt_run, pkl_period>>

fetchVars == <<attempts>>

callVars == <<args>>

cancelVars == <<combo_k, loop_locals, full_run>>

schedVars == <<clock, last_collection_time, collection_interval, collections>>

storeVars == <<insert_calls>>

\* The step-wise grid search, the scheduler and the store's call history.
laterVars == <<cancelVars, schedVars, storeVars>>

\* The successive runs, the fetch history, the functions checked on their own,
\* and the parts above.
extraVars == <<runVars, fetchVars, callVars, laterVars>>

vars == <<windowVars, aggVars, cacheVars, valVars, classifyVars, gridVars, extraVars>>

\* What the evaluation window leaves alone.
notWindowVars == <<aggVars, cacheVars, valVars, classifyVars, gridVars, extraVars>>

\* What the article store and the aggregation leave alone.
notAggVars == <<windowVars, cacheVars, valVars, classifyVars, gridVars, extraVars>>

(***************************************************************************)
(* The parts a specification does not run stay as constructed.             *)
(***************************************************************************)
WindowIdle ==
    /\ day_count = <<>>
    /\ trading_days = <<>>
    /\ signal_stats = {}
    /\ signal_days = <<>>
    /\ holding_days = <<>>
    /\ wpc = "init"

\* The article store is empty and nothing was asked of it.
AggIdle ==
    /\ news = <<>>
    /\ today = 0
    /\ result = [op |-> "none"]
    /\ market = <<>>
    /\ _volume_cache = <<>>
    /\ _volume_cache_loaded = FALSE

\* No price cache file, and no run_validation with a price cache.
CacheIdle ==
    /\ price_cache_pkl = <<>>
    /\ price_cache = <<>>

\* validate_signals as imported: nothing loaded, no run.
ValIdle ==
    /\ _volume_avg_cache = <<>>
    /\ _volume_loaded = FALSE
    /\ val_run = [pc |-> "idle"]
    /\ prev = <<>>

\* Nothing was handed to the classifier.
ClassifyIdle == agg = <<>>

\* optimize_thresholds.main has not run.
GridIdle ==
    /\ grid_pc = "init"
    /\ daily_stats = <<>>
    /\ returns_map = <<>>
    /\ benchmark = <<>>
    /\ buy_results = {}
    /\ sell_results = {}

\* The optimizer has not been run.
RunIdle ==
    /\ opt_run = [pc |-> "none"]
    /\ pkl_period = <<>>

\* No call of the price provider was recorded.
FetchIdle == attempts = <<>>

\* No function is under check.
CallIdle == args = <<>>

\* No grid search is under way.
CancelIdle ==
    /\ combo_k = 0
    /\ loop_locals = <<>>
    /\ full_run = <<>>

\* No NewsScheduler was constructed.
SchedIdle ==
    /\ clock = 0
    /\ last_collection_time = <<>>
    /\ collection_interval = 1
    /\ collections = <<>>

\* No insert_news was recorded.
StoreIdle == insert_calls = <<>>

LaterIdle ==
    /\ CancelIdle
    /\ SchedIdle
    /\ StoreIdle

ExtraIdle ==
    /\ RunIdle
    /\ FetchIdle
    /\ CallIdle
    /\ LaterIdle

(***************************************************************************)
(* Generic helpers                                                         *)
(***************************************************************************)
SetMax(S) == CHOOSE x \in S : \A y \in S : y <= x

SetMin(S) == CHOOSE x \in S : \A y \in S : x <= y

SeqSet(s) == {s[i] : i \in 1..Len(s)}

\* Python's sorted() of a set of integers (ascending).
RECURSIVE Sorted(_)
Sorted(S) == IF S = {} THEN <<>> ELSE <<SetMin(S)>> \o Sorted(S \ {SetMin(S)})

\* Python's s[-n:] for n > 0.
LastN(s, n) == IF Len(s) <= n THEN s ELSE SubSeq(s, Len(s) - n + 1, Len(s))

\* Python's s[:-n] for n > 0.
DropLastN(s, n) == IF Len(s) <= n THEN <<>> ELSE SubSeq(s, 1, Len(s) - n)

(***************************************************************************)
(* Evaluation window                                                       *)
(***************************************************************************)
\* Calendar days of the modelled period.
MaxDay == 12

Days == 1..MaxDay

\* HAVING cnt >= 10 of get_trading_days.
MIN_DAY_NEWS == 10

HOLDING_DAYS == <<1, 3, 5, 7, 10>>

\* The --hold lists run_validation is started with (default 1,3,5).
HoldLists == {<<1, 3, 5>>, HOLDING_DAYS}

\* get_trading_days: the days of [start_date, end_date] with at least
\* MIN_DAY_NEWS rows, ascending.
get_trading_days(counts, start_date, end_date) ==
    Sorted({d \in Days : d >= start_date /\ d <= end_date /\ counts[d] >= MIN_DAY_NEWS})

\* main, lines 466-473: the keys of signal_stats.
main_signal_stats(all_dates, max_hold) ==
    IF Len(all_dates) > max_hold
    THEN SeqSet(all_dates) \ SeqSet(LastN(all_dates, max_hold))
    ELSE SeqSet(all_dates)

\* run_validation, lines 384-385.
validation_signal_days(days, max_hold) ==
    IF Len(days) > max_hold THEN DropLastN(days, max_hold) ELSE days

WindowInit ==
    /\ ExtraIdle
    /\ AggIdle
    /\ CacheIdle
    /\ ValIdle
    /\ ClassifyIdle
    /\ GridIdle
    /\ day_count \in [Days -> {MIN_DAY_NEWS - 1, MIN_DAY_NEWS}]
    /\ trading_days = <<>>
    /\ signal_stats = {}
    /\ signal_days = <<>>
    /\ holding_days = HOLDING_DAYS
    /\ wpc = "init"

\* optimize_thresholds.main up to the computation of signal_stats.
Main ==
    /\ wpc = "init"
    /\ LET all_dates == get_trading_days(day_count, 1, MaxDay)
           max_hold == SetMax(SeqSet(HOLDING_DAYS))
       IN /\ trading_days' = all_dates
          /\ signal_stats' = main_signal_stats(all_dates, max_hold)
    /\ wpc' = "main"
    /\ UNCHANGED <<day_count, signal_days, holding_days, notWindowVars>>

\* validate_signals.run_validation up to the computation of signal_days.
RunValidationWindow ==
    /\ wpc = "init"
    /\ \E hl \in HoldLists :
         LET days == get_trading_days(day_count, 1, MaxDay)
             max_hold == SetMax(SeqSet(hl))
         IN /\ holding_days' = hl
            /\ trading_days' = days
            /\ signal_days' = validation_signal_days(days, max_hold)
    /\ wpc' = "validation"
    /\ UNCHANGED <<day_count, signal_stats, notWindowVars>>

WindowNext == Main \/ RunValidationWindow

SpecWindow == WindowInit /\ [][WindowNext]_vars

(***************************************************************************)
(* Numbers.  Scores are stored in hundredths (60 is 0.60); the floats the  *)
(* program computes from them are exact rationals [num, den], den > 0, in  *)
(* lowest terms, so that equal values are equal records.  Float rounding   *)
(* is not modelled.                                                        *)
(***************************************************************************)
\* A nullable value: <<>> is None (SQL NULL), <<v>> is the value v.
None == <<>>

Some(v) == <<v>>

Abs(x) == IF x < 0 THEN -x ELSE x

RECURSIVE GCD(_, _)
GCD(a, b) == IF b = 0 THEN a ELSE GCD(b, a % b)

Rat(n, d) == LET g == GCD(Abs(n), d) IN [num |-> n \div g, den |-> d \div g]

Zero == Rat(0, 1)

One == Rat(1, 1)

RatLt(a, b) == a.num * b.den < b.num * a.den

RatLe(a, b) == a.num * b.den <= b.num * a.den

\* a + b over the least common denominator.
RatAdd(a, b) ==
    LET g == GCD(a.den, b.den)
    IN Rat(a.num * (b.den \div g) + b.num * (a.den \div g), (a.den \div g) * b.den)

RatSub(a, b) == RatAdd(a, [num |-> -b.num, den |-> b.den])

RatMul(a, b) == Rat(a.num * b.num, a.den * b.den)

RatMin(a, b) == IF RatLe(a, b) THEN a ELSE b

\* a / b for b > 0.
RatDiv(a, b) == Rat(a.num * b.den, a.den * b.num)

RECURSIVE SumSeq(_)
SumSeq(s) == IF Len(s) = 0 THEN 0 ELSE s[1] + SumSeq(Tail(s))

\* sum(scores) / len(scores) if scores else 0.0
Mean(scores) == IF Len(scores) = 0 THEN Zero ELSE Rat(SumSeq(scores), 100 * Len(scores))

\* round(x, 3), ties to even.
Round3(x) ==
    LET q == (1000 * x.num) \div x.den
        r == (1000 * x.num) % x.den
    IN Rat(IF 2 * r > x.den \/ (2 * r = x.den /\ q % 2 = 1) THEN q + 1 ELSE q, 1000)

(***************************************************************************)
(* Timestamps.  published_at is TEXT and the queries compare it as text,   *)
(* so a timestamp is the sequence of its character codes.  The constant    *)
(* prefix "YYYY-MM-" is left out: a date is its two day digits.            *)
(***************************************************************************)
\* "T00:00:00"
T_START == <<84, 48, 48, 58, 48, 48, 58, 48, 48>>

\* "T23:59:59.999999"
T_END == <<84, 50, 51, 58, 53, 57, 58, 53, 57, 46, 57, 57, 57, 57, 57, 57>>

\* "T09:30:00"
T_MORNING == <<84, 48, 57, 58, 51, 48, 58, 48, 48>>

\* strftime('%d') / the f-string's date part.
DateStr(d) == <<48 + (d \div 10), 48 + (d % 10)>>

\* DATE(published_at): the calendar day a timestamp falls on.
DayOf(ts) == (ts[1] - 48) * 10 + (ts[2] - 48)

\* a <= b as SQLite and Python compare text: code by code, a prefix first.
RECURSIVE StrLeq(_, _)
StrLeq(a, b) ==
    IF Len(a) = 0 THEN TRUE
    ELSE IF Len(b) = 0 THEN FALSE
    ELSE IF a[1] # b[1] THEN a[1] < b[1]
    ELSE StrLeq(Tail(a), Tail(b))

(***************************************************************************)
(* The article store                                                       *)
(***************************************************************************)
\* Rows the store may hold.
MaxNews == 2

StockCodes == {"005930", "000660"}

\* len(code) == 6 and code.isdigit()
IsStockCode(code) == code \in StockCodes

\* insert_news as INSERT OR REPLACE would have it: a known news_id counts a
\* duplicate and takes the columns of the new dict.
insert_news_replacing(db, news_data) ==
    IF \E i \in 1..Len(db) : db[i].news_id = news_data.news_id
    THEN [i \in 1..Len(db) |->
            IF db[i].news_id = news_data.news_id
            THEN [news_data EXCEPT !.duplicate_count = db[i].duplicate_count + 1]
            ELSE db[i]]
    ELSE Append(db, [news_data EXCEPT !.duplicate_count = 1])

\* insert_news: a known news_id only counts a duplicate, a new one is a new row.
insert_news(db, news_data) ==
    IF \E i \in 1..Len(db) : db[i].news_id = news_data.news_id
    THEN [i \in 1..Len(db) |->
            IF db[i].news_id = news_data.news_id
            THEN [db[i] EXCEPT !.duplicate_count = @ + 1]
            ELSE db[i]]
    ELSE Append(db, [news_data EXCEPT !.duplicate_count = 1])

\* get_news_by_date_range with the upper bound of the range dropped.
get_news_by_date_range_open(db, start_date, end_date) ==
    SelectSeq(db, LAMBDA n : StrLeq(start_date, n.published_at))

\* get_news_by_date_range without a source filter (the rows, order aside).
get_news_by_date_range(db, start_date, end_date) ==
    SelectSeq(db, LAMBDA n : StrLeq(start_date, n.published_at)
                             /\ StrLeq(n.published_at, end_date))

\* The latest `limit` of rows: ORDER BY published_at DESC LIMIT ?
RECURSIVE Latest(_, _)
Latest(rows, limit) ==
    IF Len(rows) <= limit THEN rows
    ELSE LET i == CHOOSE k \in 1..Len(rows) :
                    \A j \in 1..Len(rows) : StrLeq(rows[k].published_at, rows[j].published_at)
         IN Latest(SubSeq(rows, 1, i - 1) \o SubSeq(rows, i + 1, Len(rows)), limit)

\* get_news_by_stock: related_stocks LIKE '%code%'.
get_news_by_stock(db, stock_code, limit) ==
    Latest(SelectSeq(db, LAMBDA n : stock_code \in SeqSet(n.related_stocks)), limit)

(***************************************************************************)
(* Per-stock statistics of a list of rows                                  *)
(***************************************************************************)
\* The rows whose related_stocks name the code.
Mentions(rows, code) == SelectSeq(rows, LAMBDA n : code \in SeqSet(n.related_stocks))

\* Every code the rows name.
CodesOf(rows) == UNION {SeqSet(rows[i].related_stocks) : i \in 1..Len(rows)}

\* The non-null sentiment scores of the rows.
SentimentScores(rows) ==
    LET f == SelectSeq(rows, LAMBDA n : n.sentiment_score # None)
    IN [i \in 1..Len(f) |-> f[i].sentiment_score[1]]

\* The non-null overall scores of the rows.
OverallScores(rows) ==
    LET f == SelectSeq(rows, LAMBDA n : n.overall_score # None)
    IN [i \in 1..Len(f) |-> f[i].overall_score[1]]

PositiveCount(scores) == Cardinality({i \in 1..Len(scores) : scores[i] > 0})

NegativeCount(scores) == Cardinality({i \in 1..Len(scores) : scores[i] < 0})

NeutralCount(scores) == Cardinality({i \in 1..Len(scores) : scores[i] = 0})

(***************************************************************************)
(* optimize_thresholds.analyze_stocks_for_date                             *)
(***************************************************************************)
opt_stock_stat(today_news, code) ==
    LET mine == Mentions(today_news, code)
        n == Len(mine)
        sent == SentimentScores(mine)
    IN [stock_code |-> code,
        news_count |-> n,
        avg_sentiment |-> Mean(sent),
        avg_overall |-> Mean(OverallScores(mine)),
        positive_count |-> PositiveCount(sent),
        negative_count |-> NegativeCount(sent),
        positive_ratio |-> Rat(PositiveCount(sent), n),
        negative_ratio |-> Rat(NegativeCount(sent), n)]

opt_analyze_stocks_for_date(db, target_date) ==
    LET today_news == get_news_by_date_range(db, DateStr(target_date) \o T_START,
                                             DateStr(target_date) \o T_END)
    IN {opt_stock_stat(today_news, code) : code \in {c \in CodesOf(today_news) : IsStockCode(c)}}

(***************************************************************************)
(* The price provider and the two overlays                                 *)
(***************************************************************************)
\* Rows of one page of the provider's daily table (10 on the site).
ROWS_PER_PAGE == 2

\* Bars of a set, ascending by date: df.sort_values('날짜').
RECURSIVE SortBars(_)
SortBars(S) ==
    IF S = {} THEN <<>>
    ELSE LET b == CHOOSE x \in S : \A y \in S : x.date <= y.date
         IN <<b>> \o SortBars(S \ {b})

Reverse(s) == [i \in 1..Len(s) |-> s[Len(s) + 1 - i]]

\* PriceFetcher.get_daily_price on a history (ascending, up to now): the
\* latest pages * ROWS_PER_PAGE bars, newest first.
get_daily_price(history, pages) == Reverse(LastN(history, pages * ROWS_PER_PAGE))

\* The table with its bounds included: a prior return of exactly 3% already
\* damps, one of exactly 1% against the news already amplifies.
price_reaction_inclusive(sentiment, current, ref) ==
    LET prior_return == Rat(current - ref, ref)
    IN IF RatLt(Zero, sentiment) /\ RatLe(Rat(3, 100), prior_return)
            THEN RatMul(sentiment, Rat(3, 10))
       ELSE IF RatLt(sentiment, Zero) /\ RatLe(prior_return, Rat(-3, 100))
            THEN RatMul(sentiment, Rat(3, 10))
       ELSE IF RatLt(Zero, sentiment) /\ RatLe(prior_return, Rat(-1, 100))
            THEN RatMul(sentiment, Rat(15, 10))
       ELSE IF RatLt(sentiment, Zero) /\ RatLe(Rat(1, 100), prior_return)
            THEN RatMul(sentiment, Rat(15, 10))
       ELSE sentiment

\* The price-reaction table both adjusters end with: sentiment s (non-zero),
\* latest close `current`, reference close `ref` > 0.
price_reaction(sentiment, current, ref) ==
    LET prior_return == Rat(current - ref, ref)
    IN IF RatLt(Zero, sentiment) /\ RatLt(Rat(3, 100), prior_return)
            THEN RatMul(sentiment, Rat(3, 10))
       ELSE IF RatLt(sentiment, Zero) /\ RatLt(prior_return, Rat(-3, 100))
            THEN RatMul(sentiment, Rat(3, 10))
       ELSE IF RatLt(Zero, sentiment) /\ RatLt(prior_return, Rat(-1, 100))
            THEN RatMul(sentiment, Rat(15, 10))
       ELSE IF RatLt(sentiment, Zero) /\ RatLt(Rat(1, 100), prior_return)
            THEN RatMul(sentiment, Rat(15, 10))
       ELSE sentiment

\* A fetch: [state |-> "df", bars |-> newest first] or [state |-> "none"]
\* (the fetch raised).  A dict without the key holds [state |-> "absent"].
Absent == [state |-> "absent", bars |-> <<>>]

Failed == [state |-> "none", bars |-> <<>>]

DataFrame(bars) == [state |-> "df", bars |-> bars]

\* TradingAnalyzer._adjust_for_price_reaction(sentiment, stock_code, days=3),
\* given what get_daily_price(stock_code, pages=1) returned.
live_adjust_for_price_reaction(sentiment, fetched, days) ==
    IF sentiment = Zero THEN Zero
    ELSE IF fetched.state # "df" \/ Len(fetched.bars) < 2 THEN sentiment
    ELSE LET df == Reverse(SortBars(SeqSet(fetched.bars)))
             current == df[1].close
             prior == df[SetMin({days, Len(df) - 1}) + 1].close
         IN IF prior <= 0 THEN sentiment
            ELSE price_reaction(sentiment, current, prior)

\* validate_signals._adjust_for_price_reaction(sentiment, stock_code,
\* signal_date, price_cache).
val_adjust_for_price_reaction(sentiment, stock_code, signal_date, cache) ==
    IF sentiment = Zero \/ cache[stock_code].state = "absent" THEN sentiment
    ELSE IF cache[stock_code].state = "none" \/ Len(cache[stock_code].bars) < 2
         THEN sentiment
    ELSE LET df == SortBars(SeqSet(cache[stock_code].bars))
             prior == SelectSeq(df, LAMBDA b : b.date <= signal_date)
         IN IF Len(prior) < 2 THEN sentiment
            ELSE LET current == prior[Len(prior)].close
                     ref == prior[Len(prior) + 1 - SetMin({4, Len(prior)})].close
                 IN IF ref <= 0 THEN sentiment
                    ELSE price_reaction(sentiment, current, ref)

\* Days the volume average looks back over: dates[1:21].
VOLUME_DAYS == 20

\* Rows of db that name the code, per calendar day: stock_daily[code].
stock_daily(db, code) ==
    [d \in {DayOf(db[i].published_at) : i \in {j \in 1..Len(db) : code \in SeqSet(db[j].related_stocks)}}
        |-> Cardinality({j \in 1..Len(db) : /\ code \in SeqSet(db[j].related_stocks)
                                            /\ DayOf(db[j].published_at) = d})]

\* dates[1:21] of the code's dates, newest first: the days whose counts
\* _load_volume_cache averages.
volume_dates(db, code) ==
    LET dates == Reverse(Sorted(DOMAIN stock_daily(db, code)))
    IN SubSeq(dates, 2, SetMin({Len(dates), VOLUME_DAYS + 1}))

\* The average _load_volume_cache stores for one code.
volume_average(db, code) ==
    LET daily == stock_daily(db, code)
        used == volume_dates(db, code)
    IN IF Cardinality(DOMAIN daily) <= 1 THEN Zero
       ELSE Rat(SumSeq([i \in 1..Len(used) |-> daily[used[i]]]), Len(used))

\* _load_volume_cache (TradingAnalyzer's and validate_signals'): the dict it
\* fills, one entry per valid code of the table.
load_volume_cache(db) ==
    [code \in {c \in CodesOf(db) : IsStockCode(c)} |-> volume_average(db, code)]

\* The volume table with its bounds the other way round: a ratio of exactly
\* 3 or 2 falls through, a ratio of exactly 0.5 already counts as quiet.
volume_signal_strict(cache, stock_code, today_count) ==
    LET avg == IF stock_code \in DOMAIN cache THEN cache[stock_code] ELSE Zero
    IN IF RatLe(avg, Zero) THEN Zero
       ELSE LET ratio == RatDiv(Rat(today_count, 1), avg)
            IN IF RatLt(Rat(3, 1), ratio) THEN Rat(-5, 10)
               ELSE IF RatLt(Rat(2, 1), ratio) THEN Rat(-2, 10)
               ELSE IF RatLe(ratio, Rat(5, 10)) THEN Rat(1, 10)
               ELSE Zero

\* _volume_signal / _get_volume_signal on a loaded cache.
volume_signal(cache, stock_code, today_count) ==
    LET avg == IF stock_code \in DOMAIN cache THEN cache[stock_code] ELSE Zero
    IN IF RatLe(avg, Zero) THEN Zero
       ELSE LET ratio == RatDiv(Rat(today_count, 1), avg)
            IN IF RatLe(Rat(3, 1), ratio) THEN Rat(-5, 10)
               ELSE IF RatLe(Rat(2, 1), ratio) THEN Rat(-2, 10)
               ELSE IF RatLt(ratio, Rat(5, 10)) THEN Rat(1, 10)
               ELSE Zero

\* composite = adjusted*0.35 + avg_overall*0.35 + min(n/10, 1)*0.15 + volume*0.15
composite_score(adjusted_sentiment, avg_overall, news_count, volume_adj) ==
    RatAdd(RatAdd(RatMul(adjusted_sentiment, Rat(35, 100)),
                  RatMul(avg_overall, Rat(35, 100))),
           RatAdd(RatMul(RatMin(Rat(news_count, 10), One), Rat(15, 100)),
                  RatMul(volume_adj, Rat(15, 100))))

(***************************************************************************)
(* The classifier                                                          *)
(***************************************************************************)
\* Thresholds, in hundredths.
BUY_SENTIMENT == 30

BUY_OVERALL == 30

BUY_COUNT == 10

BUY_RATIO == 80

SELL_SENTIMENT == -25

SELL_OVERALL == 25

SELL_COUNT == 7

SELL_RATIO == 70

WATCH_COUNT == 5

WATCH_BAND == 10

\* The buy filter of grid_search_buy, for one threshold combination.
buy_condition(s, sent_th, overall_th, count_th, ratio_th) ==
    /\ RatLt(sent_th, s.avg_sentiment)
    /\ RatLt(overall_th, s.avg_overall)
    /\ s.news_count >= count_th
    /\ RatLe(ratio_th, s.positive_ratio)
    /\ s.positive_count > s.negative_count

\* The sell filter of grid_search_sell, for one threshold combination.
sell_condition(s, sent_th, overall_th, count_th, neg_ratio_th) ==
    /\ RatLt(s.avg_sentiment, sent_th)
    /\ RatLt(s.avg_overall, overall_th)
    /\ s.news_count >= count_th
    /\ RatLe(neg_ratio_th, s.negative_ratio)
    /\ s.negative_count > s.positive_count

\* The buy filter on the adjusted sentiment in place of the average.
is_buy_candidate_adjusted(s) ==
    /\ RatLt(Rat(BUY_SENTIMENT, 100), s.adjusted_sentiment)
    /\ RatLt(Rat(BUY_OVERALL, 100), s.avg_overall)
    /\ s.news_count >= BUY_COUNT
    /\ RatLe(Rat(BUY_RATIO, 100), s.positive_ratio)
    /\ s.positive_count > s.negative_count

\* The buy filter with avg_sentiment >= 0.30 in place of > 0.30.
is_buy_candidate_ge(s) ==
    /\ RatLe(Rat(BUY_SENTIMENT, 100), s.avg_sentiment)
    /\ RatLt(Rat(BUY_OVERALL, 100), s.avg_overall)
    /\ s.news_count >= BUY_COUNT
    /\ RatLe(Rat(BUY_RATIO, 100), s.positive_ratio)
    /\ s.positive_count > s.negative_count

\* analyze_today_stocks / analyze_stocks_for_date: member of buy_candidates.
is_buy_candidate(s) ==
    /\ RatLt(Rat(BUY_SENTIMENT, 100), s.avg_sentiment)
    /\ RatLt(Rat(BUY_OVERALL, 100), s.avg_overall)
    /\ s.news_count >= BUY_COUNT
    /\ RatLe(Rat(BUY_RATIO, 100), s.positive_ratio)
    /\ s.positive_count > s.negative_count

\* member of sell_candidates.
is_sell_candidate(s) ==
    /\ RatLt(s.avg_sentiment, Rat(SELL_SENTIMENT, 100))
    /\ RatLt(s.avg_overall, Rat(SELL_OVERALL, 100))
    /\ s.news_count >= SELL_COUNT
    /\ RatLe(Rat(SELL_RATIO, 100),
             IF s.news_count > 0 THEN Rat(s.negative_count, s.news_count) ELSE Zero)

\* member of watch_candidates.
is_watch_candidate(s) ==
    /\ s.news_count >= WATCH_COUNT
    /\ RatLe(Rat(-WATCH_BAND, 100), s.avg_sentiment)
    /\ RatLe(s.avg_sentiment, Rat(WATCH_BAND, 100))
    /\ s.positive_count > 0
    /\ s.negative_count > 0

\* The signal decided without the two ratio conditions.
stock_signal_without_ratio(avg_sentiment, avg_overall, n, positive_count, negative_count) ==
    IF /\ RatLt(Rat(BUY_SENTIMENT, 100), avg_sentiment)
       /\ RatLt(Rat(BUY_OVERALL, 100), avg_overall)
       /\ n >= BUY_COUNT
    THEN [signal |-> "buy", confidence |-> One]
    ELSE IF /\ RatLt(avg_sentiment, Rat(SELL_SENTIMENT, 100))
            /\ RatLt(avg_overall, Rat(SELL_OVERALL, 100))
            /\ n >= SELL_COUNT
    THEN [signal |-> "sell", confidence |-> One]
    ELSE [signal |-> "hold", confidence |-> Rat(3, 10)]

\* get_stock_signal, lines 231-257: signal and confidence of the statistics
\* of n = len(filtered_news) > 0 rows.
stock_signal(avg_sentiment, avg_overall, n, positive_count, negative_count) ==
    LET pos_ratio == Rat(positive_count, n)
        neg_ratio == Rat(negative_count, n)
    IN IF /\ RatLt(Rat(BUY_SENTIMENT, 100), avg_sentiment)
          /\ RatLt(Rat(BUY_OVERALL, 100), avg_overall)
          /\ n >= BUY_COUNT
          /\ RatLe(Rat(BUY_RATIO, 100), pos_ratio)
       THEN [signal |-> "buy",
             confidence |-> RatMin(RatAdd(Rat(5, 10),
                                RatAdd(RatMul(avg_sentiment, Rat(3, 10)),
                                       RatMul(avg_overall, Rat(2, 10)))), One)]
       ELSE IF /\ RatLt(avg_sentiment, Rat(SELL_SENTIMENT, 100))
               /\ RatLt(avg_overall, Rat(SELL_OVERALL, 100))
               /\ n >= SELL_COUNT
               /\ RatLe(Rat(SELL_RATIO, 100), neg_ratio)
       THEN [signal |-> "sell",
             confidence |-> RatMin(RatAdd(Rat(5, 10),
                                RatAdd(RatMul(Rat(Abs(avg_sentiment.num), avg_sentiment.den),
                                              Rat(3, 10)),
                                       RatMul(RatSub(One, avg_overall), Rat(2, 10)))), One)]
       ELSE [signal |-> "hold", confidence |-> Rat(3, 10)]

\* LIMIT of get_stock_signal's call of get_news_by_stock.
SIGNAL_NEWS_LIMIT == 100

\* TradingAnalyzer.get_stock_signal(stock_code, days) at day `now`.
get_stock_signal(db, now, stock_code, days) ==
    LET news_list == get_news_by_stock(db, stock_code, SIGNAL_NEWS_LIMIT)
        start_date == DateStr(now - days) \o T_START
        end_date == DateStr(now) \o T_END
        filtered_news == SelectSeq(news_list, LAMBDA n : StrLeq(start_date, n.published_at)
                                                         /\ StrLeq(n.published_at, end_date))
        sent == SentimentScores(filtered_news)
        avg_sentiment == Mean(sent)
        avg_overall == Mean(OverallScores(filtered_news))
    IN IF Len(filtered_news) = 0
       THEN [stock_code |-> stock_code, signal |-> "hold", confidence |-> Zero,
             news_count |-> 0, avg_sentiment |-> Zero, avg_overall |-> Zero,
             reason |-> "no news"]
       ELSE LET sig == stock_signal(avg_sentiment, avg_overall, Len(filtered_news),
                                    PositiveCount(sent), NegativeCount(sent))
            IN [stock_code |-> stock_code, signal |-> sig.signal,
                confidence |-> Round3(sig.confidence),
                news_count |-> Len(filtered_news),
                avg_sentiment |-> Round3(avg_sentiment),
                avg_overall |-> Round3(avg_overall),
                positive_count |-> PositiveCount(sent),
                negative_count |-> NegativeCount(sent)]

(***************************************************************************)
(* TradingAnalyzer.analyze_today_stocks                                    *)
(***************************************************************************)
\* Overall score from which an article counts as high-score, in hundredths.
HIGH_SCORE == 70

\* One entry of stock_stats.  fetched: what get_daily_price(code, pages=1)
\* returned now; vcache: the loaded volume cache.
live_stock_stat(today_news, code, fetched, vcache) ==
    LET mine == Mentions(today_news, code)
        n == Len(mine)
        sent == SentimentScores(mine)
        overall == OverallScores(mine)
        adjusted == live_adjust_for_price_reaction(Mean(sent), fetched, 3)
        volume_adj == volume_signal(vcache, code, n)
    IN [stock_code |-> code,
        news_count |-> n,
        avg_sentiment |-> Mean(sent),
        adjusted_sentiment |-> adjusted,
        avg_overall |-> Mean(overall),
        composite_score |-> composite_score(adjusted, Mean(overall), n, volume_adj),
        volume_signal |-> volume_adj,
        positive_count |-> PositiveCount(sent),
        negative_count |-> NegativeCount(sent),
        neutral_count |-> NeutralCount(sent),
        high_score_count |-> Cardinality({i \in 1..Len(overall) : overall[i] >= HIGH_SCORE}),
        positive_ratio |-> Rat(PositiveCount(sent), n)]

\* analyze_today_stocks at day `now`.  prices[code]: what the provider returns
\* for the code now; vcache: the volume cache after _load_volume_cache.
analyze_today_stocks(db, now, prices, vcache) ==
    LET today_news == get_news_by_date_range(db, DateStr(now) \o T_START, DateStr(now) \o T_END)
        stock_stats == {live_stock_stat(today_news, code, prices[code], vcache) :
                            code \in CodesOf(today_news)}
    IN [total_news |-> Len(today_news),
        stocks_mentioned |-> Cardinality(stock_stats),
        buy_candidates |-> {s \in stock_stats : is_buy_candidate(s)},
        sell_candidates |-> {s \in stock_stats : is_sell_candidate(s)},
        watch_candidates |-> {s \in stock_stats : is_watch_candidate(s)},
        stock_stats |-> stock_stats]

(***************************************************************************)
(* SpecAgg: rows are stored, and a day's statistics are asked for          *)
(***************************************************************************)
\* published_at values around day 2: the last instant of day 1, the first and
\* the last instant of day 2, the first instant of day 3.
AggTimes ==
    {DateStr(1) \o T_END, DateStr(2) \o T_START, DateStr(2) \o T_END, DateStr(3) \o T_START}

\* (sentiment_score, overall_score) of a row.
AggScores ==
    {<<None, None>>, <<Some(0), Some(50)>>, <<Some(60), Some(70)>>, <<Some(-40), None>>}

\* related_stocks of a row.
AggRelated == {<<"005930">>, <<"005930", "000660">>}

\* An article as a crawler hands it to insert_news.
Article(t, rs, sc) ==
    [published_at |-> t, related_stocks |-> rs, sentiment_score |-> sc[1],
     overall_score |-> sc[2], duplicate_count |-> 0]

\* The articles stored in SpecAgg: a scored article at each time around day 2,
\* and on the morning of day 2 every combination of stocks and scores.
AggArticles ==
    {Article(t, <<"005930">>, <<Some(60), Some(70)>>) : t \in AggTimes}
    \cup {Article(DateStr(2) \o T_MORNING, rs, sc) : rs \in AggRelated, sc \in AggScores}

\* The day the analysis runs on.
AggToday == 2

\* What the provider holds for every code in SpecAgg: a rise of 4 % into today.
AggHistory ==
    <<[date |-> 1, open |-> 100, close |-> 100], [date |-> 2, open |-> 100, close |-> 104]>>

AggInit ==
    /\ ExtraIdle
    /\ WindowIdle
    /\ ClassifyIdle
    /\ GridIdle
    /\ CacheIdle
    /\ ValIdle
    /\ news = <<>>
    /\ today = AggToday
    /\ result = [op |-> "none"]
    /\ market = [c \in StockCodes |-> AggHistory]
    /\ _volume_cache = <<>>
    /\ _volume_cache_loaded = FALSE

\* The scheduler stores a new article: NewsDatabase.insert_news.
InsertNews ==
    /\ Len(news) < MaxNews
    /\ \E a \in AggArticles :
         news' = insert_news(news, [news_id |-> Len(news) + 1] @@ a)
    /\ result' = [op |-> "none"]
    /\ UNCHANGED <<today, market, _volume_cache, _volume_cache_loaded, notAggVars>>

\* optimize_thresholds.analyze_stocks_for_date(db, target_date).
OptAnalyze ==
    /\ \E d \in 1..3 :
         result' = [op |-> "analyze_stocks_for_date", date |-> d,
                    value |-> opt_analyze_stocks_for_date(news, d)]
    /\ UNCHANGED <<news, today, market, _volume_cache, _volume_cache_loaded, notAggVars>>

\* TradingAnalyzer.analyze_today_stocks(); the first stock it reaches loads
\* the volume cache.
AnalyzeToday ==
    LET today_news == get_news_by_date_range(news, DateStr(today) \o T_START,
                                             DateStr(today) \o T_END)
        loads == CodesOf(today_news) # {} /\ ~_volume_cache_loaded
        vcache == IF loads THEN load_volume_cache(news) ELSE _volume_cache
        prices == [c \in StockCodes |-> DataFrame(get_daily_price(market[c], 1))]
    IN /\ result' = [op |-> "analyze_today_stocks", date |-> today,
                     value |-> analyze_today_stocks(news, today, prices, vcache)]
       /\ _volume_cache' = vcache
       /\ _volume_cache_loaded' = (_volume_cache_loaded \/ loads)
       /\ UNCHANGED <<news, today, market, notAggVars>>

\* TradingAnalyzer.get_stock_signal(stock_code, days=1).
GetStockSignal ==
    /\ \E c \in StockCodes :
         result' = [op |-> "get_stock_signal", date |-> today, stock_code |-> c,
                    value |-> get_stock_signal(news, today, c, 1)]
    /\ UNCHANGED <<news, today, market, _volume_cache, _volume_cache_loaded, notAggVars>>

AggNext == InsertNews \/ OptAnalyze \/ AnalyzeToday \/ GetStockSignal

SpecAgg == AggInit /\ [][AggNext]_vars

(***************************************************************************)
(* Forward returns of a signal                                             *)
(***************************************************************************)
\* {d: None for d in holding_days}
NoReturns(hds) == [hd \in SeqSet(hds) |-> None]

\* The body get_returns and get_returns_after_signal share: the returns of a
\* signal of day signal_date from one entry of a price cache.
returns_from(entry, signal_date, hds) ==
    IF entry.state # "df" \/ Len(entry.bars) = 0 THEN NoReturns(hds)
    ELSE LET df == SortBars(SeqSet(entry.bars))
             future_days == SelectSeq(df, LAMBDA b : b.date > signal_date)
         IN IF Len(future_days) = 0 THEN NoReturns(hds)
            ELSE LET entry_price == future_days[1].open
                 IN IF entry_price <= 0 THEN NoReturns(hds)
                    ELSE [hd \in SeqSet(hds) |->
                            IF hd <= Len(future_days)
                            THEN LET exit_price == future_days[hd].close
                                 IN IF exit_price > 0
                                    THEN Some(Rat(exit_price - entry_price, entry_price))
                                    ELSE None
                            ELSE None]

\* optimize_thresholds.get_returns: price_cache.get(stock_code) is None for a
\* code the dict does not hold.
get_returns(cache, stock_code, signal_date) ==
    returns_from(cache[stock_code], signal_date, HOLDING_DAYS)

\* Pages both backtests ask the provider for.
RETURN_PAGES == 3

\* What a call of get_daily_price inside try/except leaves in a cache: the
\* bars, an empty DataFrame (no page gave a table), or None (it raised).
FetchOutcomes(history, pages) ==
    {DataFrame(get_daily_price(history, pages)), DataFrame(<<>>), Failed}

\* get_returns_after_signal, lines 283-291: the cache after the lookup, given
\* what the fetch gives if it is made.
cache_after_lookup(cache, stock_code, fetched) ==
    IF cache[stock_code].state = "absent"
    THEN [cache EXCEPT ![stock_code] = fetched]
    ELSE cache

\* get_returns_after_signal: the returns it computes from the cache it filled.
get_returns_after_signal(cache, stock_code, signal_date, hds) ==
    returns_from(cache[stock_code], signal_date, hds)

(***************************************************************************)
(* validate_signals.analyze_stocks_for_date and run_validation             *)
(***************************************************************************)
\* One entry of all_stocks.  cache: the price_cache passed in; vcache:
\* _volume_avg_cache.
val_stock_stat(today_news, code, target_date, cache, vcache) ==
    LET mine == Mentions(today_news, code)
        n == Len(mine)
        sent == SentimentScores(mine)
        avg_sent == Mean(sent)
        avg_overall == Mean(OverallScores(mine))
        vol_signal == volume_signal(vcache, code, n)
        adjusted_sent == val_adjust_for_price_reaction(avg_sent, code, target_date, cache)
    IN [stock_code |-> code,
        news_count |-> n,
        avg_sentiment |-> avg_sent,
        adjusted_sentiment |-> adjusted_sent,
        avg_overall |-> avg_overall,
        composite_score |-> composite_score(adjusted_sent, avg_overall, n, vol_signal),
        volume_signal |-> vol_signal,
        positive_count |-> PositiveCount(sent),
        negative_count |-> NegativeCount(sent),
        positive_ratio |-> Rat(PositiveCount(sent), n)]

\* analyze_stocks_for_date(db, target_date, price_cache); its buy and sell
\* filters are those of analyze_today_stocks.
val_analyze_stocks_for_date(db, target_date, cache, vcache) ==
    LET today_news == get_news_by_date_range(db, DateStr(target_date) \o T_START,
                                             DateStr(target_date) \o T_END)
        all_stocks == {val_stock_stat(today_news, code, target_date, cache, vcache) :
                            code \in {c \in CodesOf(today_news) : IsStockCode(c)}}
    IN [buy_candidates |-> {s \in all_stocks : is_buy_candidate(s)},
        sell_candidates |-> {s \in all_stocks : is_sell_candidate(s)},
        all_stocks |-> all_stocks]

\* validate_signals.get_trading_days: the days of the range with at least
\* MIN_DAY_NEWS rows that name a stock, ascending.
db_trading_days(db, start_date, end_date) ==
    Sorted({d \in start_date..end_date :
              Cardinality({i \in 1..Len(db) : /\ DayOf(db[i].published_at) = d
                                               /\ db[i].related_stocks # <<>>})
                >= MIN_DAY_NEWS})

\* --top: the candidates of a day whose returns are looked up.
TOP_N == 10

\* candidates[:top_n] of candidates sorted by composite_score, best first
\* (descending for buy, ascending for sell).
RECURSIVE TopN(_, _, _)
TopN(S, n, descending) ==
    IF S = {} \/ n = 0 THEN {}
    ELSE LET best == CHOOSE x \in S : \A y \in S :
                        IF descending THEN RatLe(y.composite_score, x.composite_score)
                        ELSE RatLe(x.composite_score, y.composite_score)
         IN {best} \cup TopN(S \ {best}, n - 1, descending)

\* The stocks of a day that are neither buy nor sell and have two rows or more.
neutral_stocks(signals) ==
    LET signal_codes == {x.stock_code : x \in signals.buy_candidates \cup signals.sell_candidates}
    IN {x \in signals.all_stocks : x.stock_code \notin signal_codes /\ x.news_count >= 2}

\* random.sample(neutral, min(3, len(neutral))): what it may return.
Samples(neutral) ==
    {S \in SUBSET neutral : Cardinality(S) = SetMin({3, Cardinality(neutral)})}

(***************************************************************************)
(* SpecReturns: prices are cached and the returns of signals are computed  *)
(***************************************************************************)
\* Calendar days the provider has bars for: two more than one fetch returns.
RetDays == RETURN_PAGES * ROWS_PER_PAGE + 2

\* The bar of a trading day: every open and every close is a different price.
Bar(d) == [date |-> d, open |-> 100 + 10 * d, close |-> 105 + 10 * d]

\* What the provider holds: a bar on every day for one stock, none on days 3
\* and 4 for the other.
RetMarket ==
    [c \in StockCodes |->
        IF c = "005930"
        THEN [i \in 1..RetDays |-> Bar(i)]
        ELSE [i \in 1..(RetDays - 2) |-> Bar(IF i <= 2 THEN i ELSE i + 2)]]

ReturnsInit ==
    /\ ExtraIdle
    /\ WindowIdle
    /\ ClassifyIdle
    /\ GridIdle
    /\ ValIdle
    /\ news = <<>>
    /\ today = RetDays
    /\ result = [op |-> "none"]
    /\ market = RetMarket
    /\ _volume_cache = <<>>
    /\ _volume_cache_loaded = FALSE
    /\ price_cache_pkl = <<>>
    /\ price_cache = [c \in StockCodes |-> Absent]

\* collect_all_prices when no cache file exists: the codes of daily_stats are
\* fetched and the dict is pickled.
CollectAllPrices ==
    /\ price_cache_pkl = <<>>
    /\ \E all_codes \in SUBSET StockCodes :
       \E fetched \in [StockCodes -> UNION {FetchOutcomes(market[c], RETURN_PAGES) : c \in StockCodes}
                                        \cup {Absent}] :
         /\ \A c \in all_codes : fetched[c] \in FetchOutcomes(market[c], RETURN_PAGES)
         /\ \A c \in StockCodes \ all_codes : fetched[c] = Absent
         /\ price_cache_pkl' = <<fetched>>
    /\ UNCHANGED <<price_cache, aggVars, windowVars, extraVars, valVars, classifyVars, gridVars>>

\* precompute_returns, one (date, stock) pair: get_returns on the loaded cache.
GetReturns ==
    /\ price_cache_pkl # <<>>
    /\ \E c \in StockCodes, d \in 1..RetDays :
         result' = [op |-> "get_returns", stock_code |-> c, date |-> d,
                    value |-> get_returns(price_cache_pkl[1], c, d)]
    /\ UNCHANGED <<news, today, market, _volume_cache, _volume_cache_loaded,
                   cacheVars, windowVars, extraVars, valVars, classifyVars, gridVars>>

\* validate_signals.get_returns_after_signal on run_validation's price_cache.
GetReturnsAfterSignal ==
    /\ \E c \in StockCodes, d \in 1..RetDays, hds \in HoldLists :
       \E fetched \in IF price_cache[c] = Absent
                       THEN FetchOutcomes(market[c], RETURN_PAGES) ELSE {Absent} :
         LET cache == cache_after_lookup(price_cache, c, fetched)
         IN /\ price_cache' = cache
            /\ result' = [op |-> "get_returns_after_signal", stock_code |-> c, date |-> d,
                          value |-> get_returns_after_signal(cache, c, d, hds)]
    /\ UNCHANGED <<news, today, market, _volume_cache, _volume_cache_loaded,
                   price_cache_pkl, windowVars, extraVars, valVars, classifyVars, gridVars>>

ReturnsNext == CollectAllPrices \/ GetReturns \/ GetReturnsAfterSignal

SpecReturns == ReturnsInit /\ [][ReturnsNext]_vars

(***************************************************************************)
(* SpecValidation: run_validation replays the days of a window             *)
(***************************************************************************)
\* Calendar days with news in SpecValidation.
ValDays == 1..3

\* k rows of the morning of day d that name the stocks rs.
Rows(d, rs, sc, k) == [i \in 1..k |-> Article(DateStr(d) \o T_MORNING, rs, sc)]

\* A table of the rows, numbered as insert_news stored them.
Table(rows) == [i \in 1..Len(rows) |-> [news_id |-> i] @@ [rows[i] EXCEPT !.duplicate_count = 1]]

\* Ten favourable rows a day on one stock.
ValBase ==
    Rows(1, <<"005930">>, <<Some(60), Some(70)>>, MIN_DAY_NEWS)
    \o Rows(2, <<"005930">>, <<Some(60), Some(70)>>, MIN_DAY_NEWS)
    \o Rows(3, <<"005930">>, <<Some(60), Some(70)>>, MIN_DAY_NEWS)

\* The news tables of SpecValidation: ValBase, and ValBase with two mildly
\* positive rows on the other stock on days 2 and 3.
ValTables ==
    {Table(ValBase),
     Table(ValBase \o Rows(2, <<"000660">>, <<Some(20), Some(50)>>, 2)
                   \o Rows(3, <<"000660">>, <<Some(20), Some(50)>>, 2))}

\* The provider: flat closes on days 1 and 2, 4 % up on day 3.
ValHistory ==
    <<[date |-> 1, open |-> 100, close |-> 100], [date |-> 2, open |-> 100, close |-> 100],
      [date |-> 3, open |-> 100, close |-> 104], [date |-> 4, open |-> 104, close |-> 104]>>

ValidationInit ==
    /\ ExtraIdle
    /\ WindowIdle
    /\ ClassifyIdle
    /\ GridIdle
    /\ news \in ValTables
    /\ today = 4
    /\ result = [op |-> "none"]
    /\ market = [c \in StockCodes |-> ValHistory]
    /\ _volume_cache = <<>>
    /\ _volume_cache_loaded = FALSE
    /\ price_cache_pkl = <<>>
    /\ price_cache = [c \in StockCodes |-> Absent]
    /\ _volume_avg_cache = <<>>
    /\ _volume_loaded = FALSE
    /\ val_run = [pc |-> "idle"]
    /\ prev = [d \in ValDays |-> None]

\* run_validation(db_path, start_date, end_date, holding_days) up to its loop.
StartValidation ==
    /\ val_run.pc = "idle"
    /\ \E start_date \in ValDays, end_date \in ValDays, hds \in HoldLists :
         LET days == db_trading_days(news, start_date, end_date)
             todo == validation_signal_days(days, SetMax(SeqSet(hds)))
         IN /\ start_date <= end_date
            /\ val_run' = IF todo = <<>> THEN [pc |-> "idle"]
                          ELSE [pc |-> "loop", todo |-> todo, holding_days |-> hds]
    /\ price_cache' = [c \in StockCodes |-> Absent]
    /\ _volume_avg_cache' = IF _volume_loaded THEN _volume_avg_cache ELSE load_volume_cache(news)
    /\ _volume_loaded' = TRUE
    /\ UNCHANGED <<aggVars, price_cache_pkl, prev, windowVars, extraVars, classifyVars, gridVars>>

\* One iteration of run_validation's loop: the day is analysed and the
\* returns of its buy, sell and sampled neutral stocks are looked up.  The
\* result keeps the price_cache the analysis was given.
ValidateDay ==
    /\ val_run.pc = "loop"
    /\ LET date == Head(val_run.todo)
           signals == val_analyze_stocks_for_date(news, date, price_cache, _volume_avg_cache)
           top == TopN(signals.buy_candidates, TOP_N, TRUE)
                    \cup TopN(signals.sell_candidates, TOP_N, FALSE)
       IN \E sample \in Samples(neutral_stocks(signals)) :
          \E fetched \in [{x.stock_code : x \in top \cup sample} ->
                            UNION {FetchOutcomes(market[c], RETURN_PAGES) : c \in StockCodes}] :
            LET looked_up == DOMAIN fetched
                cache == [c \in StockCodes |->
                            IF c \in looked_up
                            THEN cache_after_lookup(price_cache, c, fetched[c])[c]
                            ELSE price_cache[c]]
            IN /\ \A c \in looked_up :
                    fetched[c] \in IF price_cache[c] = Absent
                                   THEN FetchOutcomes(market[c], RETURN_PAGES)
                                   ELSE {Failed}
               /\ price_cache' = cache
               /\ result' = [op |-> "run_validation", date |-> date, value |-> signals,
                             price_cache |-> price_cache,
                             returns |-> [c \in looked_up |->
                                            get_returns_after_signal(cache, c, date,
                                                                     val_run.holding_days)]]
    /\ prev' = IF result.op = "run_validation"
               THEN [prev EXCEPT ![result.date] = Some(result.value)]
               ELSE prev
    /\ val_run' = IF Len(val_run.todo) = 1 THEN [pc |-> "idle"]
                  ELSE [val_run EXCEPT !.todo = Tail(@)]
    /\ UNCHANGED <<news, today, market, _volume_cache, _volume_cache_loaded, price_cache_pkl,
                   _volume_avg_cache, _volume_loaded, windowVars, extraVars, classifyVars, gridVars>>

ValidationNext == StartValidation \/ ValidateDay

SpecValidation == ValidationInit /\ [][ValidationNext]_vars

(***************************************************************************)
(* optimize_thresholds: benchmark and grid search                          *)
(***************************************************************************)
\* Thresholds of the grids, in hundredths (counts as they are).
BUY_GRID ==
    [avg_sentiment |-> {5, 10, 15, 20, 25, 30}, avg_overall |-> {30, 40, 50, 60},
     news_count |-> {3, 5, 7, 10}, positive_ratio |-> {30, 50, 60, 70, 80}]

SELL_GRID ==
    [avg_sentiment |-> {-5, -10, -15, -20, -25, -30}, avg_overall |-> {30, 25, 20, 15, 10},
     news_count |-> {3, 5, 7, 10}, negative_ratio |-> {30, 50, 60, 70, 80}]

\* Fewest selected stock-days a buy combination is reported for.
MIN_BUY_SAMPLES == 10

\* Fewest selected stock-days a sell combination is reported for.
MIN_SELL_SAMPLES == 5

\* The (date, statistics) pairs of a daily_stats dict.
StatPairs(stats) == UNION {{<<d, x>> : x \in stats[d]} : d \in DOMAIN stats}

\* precompute_returns: get_returns for every (date, stock) of the dict.
precompute_returns(stats, cache) ==
    [k \in {<<pr[1], pr[2].stock_code>> : pr \in StatPairs(stats)} |->
        get_returns(cache, k[2], k[1])]

\* sum(f[x] for x in S)
RECURSIVE SumOver(_, _)
SumOver(S, f) ==
    IF S = {} THEN Zero
    ELSE LET x == CHOOSE y \in S : TRUE
         IN RatAdd(f[x], SumOver(S \ {x}, f))

\* The pairs of a selection that have a return for the horizon, each with it.
horizon_returns(selected, rmap, hd) ==
    [pr \in {q \in selected : rmap[<<q[1], q[2].stock_code>>][hd] # None} |->
        rmap[<<pr[1], pr[2].stock_code>>][hd][1]]

\* calc_benchmark: per horizon the mean return of every (date, stock) of the
\* dict that has one, 0.0 if none has.
calc_benchmark(stats, rmap) ==
    [hd \in SeqSet(HOLDING_DAYS) |->
        LET rets == horizon_returns({pr \in StatPairs(stats) :
                                        <<pr[1], pr[2].stock_code>> \in DOMAIN rmap}, rmap, hd)
        IN IF DOMAIN rets = {} THEN Zero
           ELSE RatDiv(SumOver(DOMAIN rets, rets), Rat(Cardinality(DOMAIN rets), 1))]

\* excess of a buy group: line 278.
buy_excess(avg_ret, benchmark_return) == RatSub(avg_ret, benchmark_return)

\* excess of a sell group written as the buy group's is.
sell_excess_as_buy(avg_ret, benchmark_return) == RatSub(avg_ret, benchmark_return)

\* excess of a sell group: line 334.
sell_excess(avg_ret, benchmark_return) == RatSub(benchmark_return, avg_ret)

\* stats of one combination: per horizon with a return, n, avg, hit_rate and
\* excess.  side is "buy" or "sell".
group_stats(selected, rmap, benchmark_returns, side) ==
    [hd \in {h \in SeqSet(HOLDING_DAYS) : DOMAIN horizon_returns(selected, rmap, h) # {}} |->
        LET rets == horizon_returns(selected, rmap, hd)
            n == Cardinality(DOMAIN rets)
            avg_ret == RatDiv(SumOver(DOMAIN rets, rets), Rat(n, 1))
            hits == {pr \in DOMAIN rets : IF side = "buy" THEN RatLt(Zero, rets[pr])
                                          ELSE RatLt(rets[pr], Zero)}
        IN [n |-> n, avg |-> avg_ret, hit_rate |-> Rat(Cardinality(hits), n),
            excess |-> IF side = "buy" THEN buy_excess(avg_ret, benchmark_returns[hd])
                       ELSE sell_excess(avg_ret, benchmark_returns[hd])]]

\* best_excess: the largest excess of the horizons, from -999.
best_excess(stats) ==
    LET all == {stats[hd].excess : hd \in DOMAIN stats} \cup {Rat(-999, 1)}
    IN CHOOSE x \in all : \A y \in all : RatLe(y, x)

\* The pairs a buy combination selects.
buy_selected(stats, rmap, sent_th, overall_th, count_th, ratio_th) ==
    {pr \in StatPairs(stats) :
        /\ buy_condition(pr[2], Rat(sent_th, 100), Rat(overall_th, 100), count_th,
                         Rat(ratio_th, 100))
        /\ <<pr[1], pr[2].stock_code>> \in DOMAIN rmap}

\* The pairs a sell combination selects.
sell_selected(stats, rmap, sent_th, overall_th, count_th, neg_ratio_th) ==
    {pr \in StatPairs(stats) :
        /\ sell_condition(pr[2], Rat(sent_th, 100), Rat(overall_th, 100), count_th,
                          Rat(neg_ratio_th, 100))
        /\ <<pr[1], pr[2].stock_code>> \in DOMAIN rmap}

\* grid_search_buy: a result per combination with enough selected pairs.
grid_search_buy(stats, rmap, benchmark_returns) ==
    {[sentiment |-> c[1], overall |-> c[2], count |-> c[3], ratio |-> c[4],
      stats |-> group_stats(buy_selected(stats, rmap, c[1], c[2], c[3], c[4]), rmap,
                            benchmark_returns, "buy"),
      best_excess |-> best_excess(group_stats(buy_selected(stats, rmap, c[1], c[2], c[3], c[4]),
                                              rmap, benchmark_returns, "buy")),
      n |-> Cardinality(buy_selected(stats, rmap, c[1], c[2], c[3], c[4]))] :
        c \in {k \in BUY_GRID.avg_sentiment \X BUY_GRID.avg_overall
                      \X BUY_GRID.news_count \X BUY_GRID.positive_ratio :
                 LET selected == buy_selected(stats, rmap, k[1], k[2], k[3], k[4])
                 IN /\ Cardinality(selected) >= MIN_BUY_SAMPLES
                    /\ DOMAIN group_stats(selected, rmap, benchmark_returns, "buy") # {}}}

\* grid_search_sell: a result per combination with enough selected pairs.
grid_search_sell(stats, rmap, benchmark_returns) ==
    {[sentiment |-> c[1], overall |-> c[2], count |-> c[3], neg_ratio |-> c[4],
      stats |-> group_stats(sell_selected(stats, rmap, c[1], c[2], c[3], c[4]), rmap,
                            benchmark_returns, "sell"),
      best_excess |-> best_excess(group_stats(sell_selected(stats, rmap, c[1], c[2], c[3], c[4]),
                                              rmap, benchmark_returns, "sell")),
      n |-> Cardinality(sell_selected(stats, rmap, c[1], c[2], c[3], c[4]))] :
        c \in {k \in SELL_GRID.avg_sentiment \X SELL_GRID.avg_overall
                      \X SELL_GRID.news_count \X SELL_GRID.negative_ratio :
                 LET selected == sell_selected(stats, rmap, k[1], k[2], k[3], k[4])
                 IN /\ Cardinality(selected) >= MIN_SELL_SAMPLES
                    /\ DOMAIN group_stats(selected, rmap, benchmark_returns, "sell") # {}}}

(***************************************************************************)
(* SpecClassify: one stock-day aggregate is classified                     *)
(***************************************************************************)
\* avg_sentiment of the aggregates drawn, in hundredths: around both
\* sentiment thresholds, inside the watch band, and 0.52.
ClsSentiments == {-26, -25, 0, 10, 29, 30, 31, 52}

\* avg_overall of the aggregates drawn, in hundredths.
ClsOveralls == {24, 25, 30, 31, 50}

\* news_count of the aggregates drawn: around the minimum counts.
ClsCounts == {6, 7, 9, 10, 11}

\* The statistics of n rows of which p have a positive and q a negative
\* sentiment score: the record both aggregators build.
Aggregate(code, sentiment, overall, n, p, q) ==
    [stock_code |-> code,
     news_count |-> n,
     avg_sentiment |-> Rat(sentiment, 100),
     avg_overall |-> Rat(overall, 100),
     positive_count |-> p,
     negative_count |-> q,
     positive_ratio |-> Rat(p, n),
     negative_ratio |-> Rat(q, n)]

\* Scores lie in [-1, 1], so the mean of the scored rows (p + q of them or
\* more, n at most) times their number lies between -q and p.
Consistent(sentiment, n, p, q) ==
    /\ p + q <= n
    /\ \E k \in 1..n : /\ p + q <= k
                       /\ sentiment * k <= 100 * p
                       /\ sentiment * k >= -100 * q
                       /\ (sentiment = 0 \/ p + q > 0)

ClassifyInit ==
    /\ ExtraIdle
    /\ WindowIdle
    /\ AggIdle
    /\ CacheIdle
    /\ ValIdle
    /\ GridIdle
    /\ \E sentiment \in ClsSentiments, overall \in ClsOveralls, n \in ClsCounts :
       \E p \in 0..n, q \in 0..n :
         /\ Consistent(sentiment, n, p, q)
         /\ agg = Aggregate("005930", sentiment, overall, n, p, q)

\* analyze_today_stocks / analyze_stocks_for_date: the lists the aggregate is
\* put on.
ClassifyCandidate ==
    /\ result' = [op |-> "candidates",
                  buy |-> is_buy_candidate(agg),
                  sell |-> is_sell_candidate(agg),
                  watch |-> is_watch_candidate(agg)]
    /\ UNCHANGED <<news, today, market, _volume_cache, _volume_cache_loaded, windowVars, extraVars,
                   cacheVars, valVars, classifyVars, gridVars>>

\* get_stock_signal: the signal of the aggregate.
ClassifySignal ==
    /\ result' = [op |-> "signal",
                  value |-> stock_signal(agg.avg_sentiment, agg.avg_overall, agg.news_count,
                                         agg.positive_count, agg.negative_count)]
    /\ UNCHANGED <<news, today, market, _volume_cache, _volume_cache_loaded, windowVars, extraVars,
                   cacheVars, valVars, classifyVars, gridVars>>

ClassifyNext == ClassifyCandidate \/ ClassifySignal

SpecClassify == ClassifyInit /\ [][ClassifyNext]_vars

(***************************************************************************)
(* SpecGrid: main computes the returns, the benchmark and both grids       *)
(***************************************************************************)
\* Signal days of the run.
GridDays == 8

\* Price paths of the provider.
GridPaths == {"rise", "fall", "zigzag"}

\* The bar of day d of a stock on a path: every day opens at 100.
GridBar(path, c, d) ==
    LET k == IF c = "005930" THEN 0 ELSE 1
        move == CASE path = "rise" -> 1 + ((d + k) % 3)
                  [] path = "fall" -> -1 - ((d + 2 * k) % 4)
                  [] OTHER -> 3 * ((d + k) % 3) - 3
    IN [date |-> d, open |-> 100, close |-> 100 + move]

\* The statistics of a day: on an up day both stocks have favourable news,
\* on a down day both have unfavourable news.
GridStats(up) ==
    IF up THEN {Aggregate("005930", 52, 50, 10, 9, 1), Aggregate("000660", 12, 45, 5, 3, 1)}
    ELSE {Aggregate("005930", -40, 20, 8, 1, 7), Aggregate("000660", -12, 28, 4, 0, 3)}

GridInit ==
    /\ ExtraIdle
    /\ WindowIdle
    /\ ValIdle
    /\ ClassifyIdle
    /\ news = <<>>
    /\ today = GridDays + 2
    /\ result = [op |-> "none"]
    /\ \E path \in GridPaths :
         market = [c \in StockCodes |-> [d \in 1..(GridDays + 2) |-> GridBar(path, c, d)]]
    /\ _volume_cache = <<>>
    /\ _volume_cache_loaded = FALSE
    /\ price_cache_pkl = <<>>
    /\ price_cache = <<>>
    /\ grid_pc = "stats"
    /\ \E ups \in 0..GridDays : daily_stats = [d \in 1..GridDays |-> GridStats(d <= ups)]
    /\ returns_map = <<>>
    /\ benchmark = <<>>
    /\ buy_results = {}
    /\ sell_results = {}

\* main, steps 2 and 3: collect_all_prices and precompute_returns.  The fetch
\* of a stock gives its bars, or raises and leaves None in the dict.
PrecomputeReturns ==
    /\ grid_pc = "stats"
    /\ \E cache \in [StockCodes -> UNION {{DataFrame(get_daily_price(market[c], RETURN_PAGES)),
                                           Failed} : c \in StockCodes}] :
          /\ \A c \in StockCodes :
                cache[c] \in {DataFrame(get_daily_price(market[c], RETURN_PAGES)), Failed}
          /\ price_cache_pkl' = <<cache>>
          /\ returns_map' = precompute_returns(daily_stats, cache)
    /\ grid_pc' = "returns"
    /\ UNCHANGED <<daily_stats, benchmark, buy_results, sell_results, price_cache, aggVars,
                   windowVars, extraVars, valVars, classifyVars>>

\* main, step 4: calc_benchmark.
CalcBenchmark ==
    /\ grid_pc = "returns"
    /\ benchmark' = calc_benchmark(daily_stats, returns_map)
    /\ grid_pc' = "benchmark"
    /\ UNCHANGED <<daily_stats, returns_map, buy_results, sell_results, cacheVars, aggVars,
                   windowVars, extraVars, valVars, classifyVars>>

\* main, step 5: grid_search_buy.
GridSearchBuy ==
    /\ grid_pc = "benchmark"
    /\ buy_results' = grid_search_buy(daily_stats, returns_map, benchmark)
    /\ grid_pc' = "buy"
    /\ UNCHANGED <<daily_stats, returns_map, benchmark, sell_results, cacheVars, aggVars,
                   windowVars, extraVars, valVars, classifyVars>>

\* main, step 5: grid_search_sell.
GridSearchSell ==
    /\ grid_pc = "buy"
    /\ sell_results' = grid_search_sell(daily_stats, returns_map, benchmark)
    /\ grid_pc' = "sell"
    /\ UNCHANGED <<daily_stats, returns_map, benchmark, buy_results, cacheVars, aggVars,
                   windowVars, extraVars, valVars, classifyVars>>

GridNext == PrecomputeReturns \/ CalcBenchmark \/ GridSearchBuy \/ GridSearchSell

SpecGrid == GridInit /\ [][GridNext]_vars

(***************************************************************************)
(* SpecRuns: successive runs of scripts/optimize_thresholds.py. Every run  *)
(* has its own --start/--end and --no-cache; the file price_cache.pkl      *)
(* outlives the run, and the provider gains a bar every trading day.       *)
(***************************************************************************)
\* The first and the last day a run is started on.
FirstRunDay == 3

MaxRunDay == 5

\* The evaluation periods a run may be given: --start and --end.
Periods == {p \in (1..(FirstRunDay - 1)) \X (1..(FirstRunDay - 1)) : p[1] <= p[2]}

\* The provider on a day: every stock has a bar on every day so far.
RunMarket(now) == [c \in StockCodes |-> [i \in 1..now |-> Bar(i)]]

\* collect_all_prices, lines 150-184: the pickled dict when the file exists,
\* whatever run wrote it; otherwise the fetched dict, which is pickled.
collect_all_prices(file, fetched) == IF file # <<>> THEN file[1] ELSE fetched

\* Lines 155-178: what fetching the codes of all_codes may leave in the dict.
FetchedDicts(all_codes, mkt) ==
    {f \in [StockCodes -> UNION {FetchOutcomes(mkt[c], RETURN_PAGES) : c \in StockCodes}
                          \cup {Absent}] :
        /\ \A c \in all_codes : f[c] \in FetchOutcomes(mkt[c], RETURN_PAGES)
        /\ \A c \in StockCodes \ all_codes : f[c] = Absent}

RunsInit ==
    /\ WindowIdle
    /\ ValIdle
    /\ ClassifyIdle
    /\ GridIdle
    /\ CacheIdle
    /\ LaterIdle
    /\ RunIdle
    /\ FetchIdle
    /\ CallIdle
    /\ news = <<>>
    /\ today = FirstRunDay
    /\ result = [op |-> "none"]
    /\ market = RunMarket(FirstRunDay)
    /\ _volume_cache = <<>>
    /\ _volume_cache_loaded = FALSE

\* main, lines 445-476: the arguments, --no-cache removing the file, and
\* collect_all_prices over the codes of the period's statistics.
MainCollect ==
    /\ \E period \in Periods, no_cache \in BOOLEAN, all_codes \in SUBSET StockCodes :
       \E fetched \in FetchedDicts(all_codes, market) :
         LET file == IF no_cache THEN <<>> ELSE price_cache_pkl
             cache == collect_all_prices(file, fetched)
         IN /\ price_cache_pkl' = <<cache>>
            /\ pkl_period' = IF file # <<>> THEN pkl_period ELSE period
            /\ opt_run' = [pc |-> "collected", start |-> period[1], end |-> period[2],
                           no_cache |-> no_cache, loaded |-> file # <<>>,
                           price_cache |-> cache]
    /\ UNCHANGED <<price_cache, aggVars, windowVars, valVars, classifyVars, gridVars,
                   fetchVars, callVars,
                   laterVars>>

\* A trading day passes between two runs: the provider has one more bar.
NextTradingDay ==
    /\ today < MaxRunDay
    /\ today' = today + 1
    /\ market' = RunMarket(today + 1)
    /\ UNCHANGED <<news, result, _volume_cache, _volume_cache_loaded, cacheVars, windowVars,
                   valVars, classifyVars, gridVars, extraVars>>

RunsNext == MainCollect \/ NextTradingDay

SpecRuns == RunsInit /\ [][RunsNext]_vars

(***************************************************************************)
(* SpecFetch: the price provider page by page, as the two backtests call   *)
(* it.  A behaviour is one run of one of them: collect_all_prices and      *)
(* get_returns for the optimizer, get_returns_after_signal for the         *)
(* validation.                                                             *)
(***************************************************************************)
\* The rows of one page of the provider's table: the table is newest first,
\* page 1 holds the latest ROWS_PER_PAGE bars.
page_rows(history, page) ==
    LET table == Reverse(history)
    IN {table[i] : i \in {j \in 1..Len(table) :
                            (page - 1) * ROWS_PER_PAGE < j /\ j <= page * ROWS_PER_PAGE}}

\* get_daily_price, lines 29-86, when only the pages of `ok` gave a table: a
\* page with a non-200 answer, without a table or with an exception is
\* skipped, the others are concatenated and sorted newest first.
get_daily_price_pages(history, pages, ok) ==
    Reverse(SortBars(UNION {page_rows(history, p) : p \in ok \cap (1..pages)}))

\* What may happen to one call: the pages that gave a table, and whether the
\* call raised after the page loop.
CallOutcomes(pages) ==
    {[ok |-> S, raised |-> FALSE] : S \in SUBSET (1..pages)}
        \cup {[ok |-> 1..pages, raised |-> TRUE]}

\* What the caller's try/except leaves in the cache after such a call.
fetch_entry(history, pages, outcome) ==
    IF outcome.raised THEN Failed
    ELSE DataFrame(get_daily_price_pages(history, pages, outcome.ok))

\* The signal dates of the run.
FetchDates == {2, 4}

FetchInit ==
    /\ WindowIdle
    /\ ValIdle
    /\ ClassifyIdle
    /\ GridIdle
    /\ LaterIdle
    /\ RunIdle
    /\ CallIdle
    /\ news = <<>>
    /\ today = RetDays
    /\ result = [op |-> "none"]
    /\ market = RetMarket
    /\ _volume_cache = <<>>
    /\ _volume_cache_loaded = FALSE
    /\ price_cache_pkl = <<>>
    /\ price_cache = [c \in StockCodes |-> Absent]
    /\ attempts = [c \in StockCodes |-> <<>>]

\* collect_all_prices, lines 155-184, in a run of the optimizer: one call per
\* code of all_codes, the dict is pickled.
FetchCollect ==
    /\ price_cache_pkl = <<>>
    /\ \A c \in StockCodes : price_cache[c] = Absent
    /\ \E all_codes \in SUBSET StockCodes :
       \E outcome \in [StockCodes -> CallOutcomes(RETURN_PAGES)] :
         /\ \A c \in StockCodes \ all_codes : outcome[c] = [ok |-> {}, raised |-> FALSE]
         /\ price_cache_pkl' =
              <<[c \in StockCodes |->
                   IF c \in all_codes
                   THEN fetch_entry(market[c], RETURN_PAGES, outcome[c])
                   ELSE Absent]>>
         /\ attempts' = [c \in StockCodes |->
                           IF c \in all_codes THEN attempts[c] \o <<outcome[c]>>
                           ELSE attempts[c]]
    /\ UNCHANGED <<price_cache, aggVars, windowVars, valVars, classifyVars, gridVars,
                   runVars, callVars,
                   laterVars>>

\* precompute_returns, one (date, stock) pair, on the dict of the run.
FetchGetReturns ==
    /\ price_cache_pkl # <<>>
    /\ \E c \in StockCodes, d \in FetchDates :
         result' = [op |-> "get_returns", stock_code |-> c, date |-> d,
                    returns |-> get_returns(price_cache_pkl[1], c, d)]
    /\ UNCHANGED <<news, today, market, _volume_cache, _volume_cache_loaded, cacheVars,
                   windowVars, valVars, classifyVars, gridVars, extraVars>>

\* get_returns_after_signal in a run of the validation: the provider is
\* called when the dict does not hold the code, and only then.
FetchAfterSignal ==
    /\ price_cache_pkl = <<>>
    /\ \E c \in StockCodes, d \in FetchDates :
       \E outcome \in CallOutcomes(RETURN_PAGES) :
         LET called == price_cache[c].state = "absent"
             cache == cache_after_lookup(price_cache, c,
                                         fetch_entry(market[c], RETURN_PAGES, outcome))
         IN /\ called \/ outcome = [ok |-> 1..RETURN_PAGES, raised |-> FALSE]
            /\ price_cache' = cache
            /\ attempts' = IF called THEN [attempts EXCEPT ![c] = @ \o <<outcome>>]
                           ELSE attempts
            /\ result' = [op |-> "get_returns_after_signal", stock_code |-> c, date |-> d,
                          returns |-> returns_from(cache[c], d, HOLDING_DAYS)]
    /\ UNCHANGED <<news, today, market, _volume_cache, _volume_cache_loaded, price_cache_pkl,
                   windowVars, valVars, classifyVars, gridVars, runVars, callVars,
                   laterVars>>

FetchNext == FetchCollect \/ FetchGetReturns \/ FetchAfterSignal

SpecFetch == FetchInit /\ [][FetchNext]_vars

(***************************************************************************)
(* SpecAdjust: the two price-reaction adjusters on drawn inputs            *)
(***************************************************************************)
\* The longest price history drawn.
AdjMaxBars == 3

\* The closes drawn: 100 and the closes 1%, 3% and 5% off it on either side,
\* and a close of 0.
AdjCloses == {0, 95, 97, 99, 100, 101, 103, 105}

\* The sentiments drawn, in hundredths.
AdjSentiments == {-60, 0, 60}

\* The histories drawn: a bar a day from day 1.
AdjHistories ==
    UNION {[1..n -> AdjCloses] : n \in 0..AdjMaxBars}

AdjBars(closes) == [i \in 1..Len(closes) |-> [date |-> i, open |-> closes[i], close |-> closes[i]]]

AdjustInit ==
    /\ WindowIdle
    /\ ValIdle
    /\ ClassifyIdle
    /\ GridIdle
    /\ CacheIdle
    /\ LaterIdle
    /\ RunIdle
    /\ FetchIdle
    /\ news = <<>>
    /\ today = AdjMaxBars
    /\ result = [op |-> "none"]
    /\ market = <<>>
    /\ _volume_cache = <<>>
    /\ _volume_cache_loaded = FALSE
    /\ \E s \in AdjSentiments, closes \in AdjHistories, d \in 1..AdjMaxBars :
         args = [sentiment |-> Rat(s, 100), stock_code |-> "005930",
                 history |-> AdjBars(closes), signal_date |-> d]

\* TradingAnalyzer._adjust_for_price_reaction: it asks the provider for one
\* page and adjusts on what comes back.
LiveAdjust ==
    /\ args # <<>>
    /\ \E fetched \in FetchOutcomes(args.history, 1) :
         result' = [op |-> "live_adjust", fetched |-> fetched,
                    value |-> live_adjust_for_price_reaction(args.sentiment, fetched, 3)]
    /\ UNCHANGED <<news, today, market, _volume_cache, _volume_cache_loaded, cacheVars,
                   windowVars, valVars, classifyVars, gridVars, extraVars>>

\* validate_signals._adjust_for_price_reaction on a price cache that holds
\* the stock's entry, or does not hold the stock.
ValAdjust ==
    /\ args # <<>>
    /\ \E fetched \in FetchOutcomes(args.history, RETURN_PAGES) \cup {Absent} :
         result' = [op |-> "val_adjust", fetched |-> fetched,
                    value |-> val_adjust_for_price_reaction(
                                  args.sentiment, args.stock_code, args.signal_date,
                                  [c \in StockCodes |->
                                      IF c = args.stock_code THEN fetched ELSE Absent])]
    /\ UNCHANGED <<news, today, market, _volume_cache, _volume_cache_loaded, cacheVars,
                   windowVars, valVars, classifyVars, gridVars, extraVars>>

AdjustNext == LiveAdjust \/ ValAdjust

SpecAdjust == AdjustInit /\ [][AdjustNext]_vars

(***************************************************************************)
(* SpecVolume: the volume signal on drawn counts and averages              *)
(***************************************************************************)
\* The largest news count of the day drawn.
MaxTodayCount == 30

\* The largest historical average drawn.
MaxVolumeAvg == 10

\* The averages drawn, in halves, from 0.
VolumeAverages == {Rat(n, 2) : n \in 0..(2 * MaxVolumeAvg)}

\* The loaded caches drawn: without the stock, or with an average for it.
VolumeCaches == {<<>>} \cup {[c \in {"005930"} |-> a] : a \in VolumeAverages}

VolumeInit ==
    /\ WindowIdle
    /\ ClassifyIdle
    /\ GridIdle
    /\ CacheIdle
    /\ LaterIdle
    /\ RunIdle
    /\ FetchIdle
    /\ news = <<>>
    /\ today = 0
    /\ result = [op |-> "none"]
    /\ market = <<>>
    /\ val_run = [pc |-> "idle"]
    /\ prev = <<>>
    /\ \E cache \in VolumeCaches :
         /\ _volume_cache = cache
         /\ _volume_avg_cache = cache
    /\ _volume_cache_loaded = TRUE
    /\ _volume_loaded = TRUE
    /\ \E c \in 0..MaxTodayCount : args = [stock_code |-> "005930", today_count |-> c]

\* TradingAnalyzer._volume_signal: the cache is loaded, _load_volume_cache
\* returns at once.
LiveVolumeSignal ==
    /\ _volume_cache_loaded
    /\ result' = [op |-> "_volume_signal",
                  value |-> volume_signal(_volume_cache, args.stock_code, args.today_count)]
    /\ UNCHANGED <<news, today, market, _volume_cache, _volume_cache_loaded, cacheVars,
                   windowVars, valVars, classifyVars, gridVars, extraVars>>

\* validate_signals._get_volume_signal.
ValVolumeSignal ==
    /\ _volume_loaded
    /\ result' = [op |-> "_get_volume_signal",
                  value |-> volume_signal(_volume_avg_cache, args.stock_code, args.today_count)]
    /\ UNCHANGED <<news, today, market, _volume_cache, _volume_cache_loaded, cacheVars,
                   windowVars, valVars, classifyVars, gridVars, extraVars>>

VolumeNext == LiveVolumeSignal \/ ValVolumeSignal

SpecVolume == VolumeInit /\ [][VolumeNext]_vars

(***************************************************************************)
(* The sentiment analyzer (news_scraper/sentiment_analyzer.py).  A text is *)
(* the sequence of the code points of its characters; 32 is the space.     *)
(***************************************************************************)
\* The words the texts are made of.
HARAK == <<54616, 46973>>    \* '하락'

URYEO == <<50864, 47140>>    \* '우려'

HAESO == <<54644, 49548>>    \* '해소'

SANGSEUNG == <<49345, 49849>>    \* '상승'

AN == <<50504>>    \* '안'

JUGA == <<51452, 44032>>    \* '주가'

SANGHANGA == <<49345, 54620, 44032>>    \* '상한가'

HOENGRYEONG == <<54945, 47161>>    \* '횡령'

Vocabulary == {HARAK, URYEO, HAESO, SANGSEUNG, AN, JUGA, SANGHANGA, HOENGRYEONG}

\* The lexicons, each cut down to the entries that occur in some text made
\* of the words above; the order is that of the source.
POSITIVE_KEYWORDS == <<SANGSEUNG>>

NEGATIVE_KEYWORDS == <<HARAK, URYEO, HOENGRYEONG>>

STRONG_POSITIVE == <<SANGHANGA>>

STRONG_NEGATIVE == <<HOENGRYEONG>>

COMPOUND_EXPRESSIONS ==
    <<[expr |-> HARAK \o <<32>> \o URYEO \o <<32>> \o HAESO, sentiment |-> 1],
      [expr |-> URYEO \o <<32>> \o HAESO, sentiment |-> 1]>>

NEGATION_WORDS == <<AN>>

NEGATION_WINDOW == 2

\* str.lower(): the capital letters A-Z become a-z.
lower(text) ==
    [i \in 1..Len(text) |-> IF text[i] >= 65 /\ text[i] <= 90 THEN text[i] + 32 ELSE text[i]]

\* text[pos : pos + len(sub)] == sub, for a 0-based pos.
MatchAt(text, sub, pos) ==
    /\ pos + Len(sub) <= Len(text)
    /\ \A k \in 1..Len(sub) : text[pos + k] = sub[k]

\* str.find(sub, start): the first 0-based position from start, or -1.
find(text, sub, start) ==
    LET hits == {p \in start..(Len(text) - Len(sub)) : MatchAt(text, sub, p)}
    IN IF hits = {} THEN -1 ELSE SetMin(hits)

\* sub in text
contains(text, sub) == find(text, sub, 0) # -1

\* str.replace(old, new): every occurrence, left to right, without overlap.
RECURSIVE replace(_, _, _)
replace(text, old, new) ==
    LET pos == find(text, old, 0)
    IN IF pos = -1 THEN text
       ELSE SubSeq(text, 1, pos) \o new
            \o replace(SubSeq(text, pos + Len(old) + 1, Len(text)), old, new)

\* str.split(): the words between runs of spaces.
RECURSIVE split(_)
split(text) ==
    IF Len(text) = 0 THEN <<>>
    ELSE IF text[1] = 32 THEN split(Tail(text))
    ELSE LET spaces == {i \in 1..Len(text) : text[i] = 32}
             stop == IF spaces = {} THEN Len(text) + 1 ELSE SetMin(spaces)
         IN <<SubSeq(text, 1, stop - 1)>> \o split(SubSeq(text, stop, Len(text)))

\* A negation check without the window: any word before the keyword counts.
_check_negation_anywhere(text, keyword_pos) ==
    LET words_before == split(SubSeq(text, 1, keyword_pos))
    IN \E i \in 1..Len(words_before), j \in 1..Len(NEGATION_WORDS) :
           contains(words_before[i], NEGATION_WORDS[j])

\* _check_negation(text, keyword, keyword_pos): one of the last
\* NEGATION_WINDOW words of text[:keyword_pos] contains a negation word.
_check_negation(text, keyword_pos) ==
    LET words_before == split(SubSeq(text, 1, keyword_pos))
        words_to_check == LastN(words_before, NEGATION_WINDOW)
    IN \E i \in 1..Len(words_to_check), j \in 1..Len(NEGATION_WORDS) :
           contains(words_to_check[i], NEGATION_WORDS[j])

\* The positions the while loop of _count_with_negation visits for a keyword.
RECURSIVE occurrences(_, _, _)
occurrences(text, keyword, start) ==
    LET pos == find(text, keyword, start)
    IN IF pos = -1 THEN {}
       ELSE {pos} \cup occurrences(text, keyword, pos + Len(keyword))

\* _count_with_negation(text, keywords): (normal_count, negated_count).
_count_with_negation(text, keywords) ==
    LET hits == UNION {{<<k, pos>> : pos \in occurrences(text, keywords[k], 0)} :
                          k \in 1..Len(keywords)}
        negated == {h \in hits : _check_negation(text, h[2])}
    IN [normal |-> Cardinality(hits \ negated), negated |-> Cardinality(negated)]

\* Step 1: the sum of the polarities of the compound expressions in the text.
compound_score(text_lower) ==
    SumSeq([i \in 1..Len(COMPOUND_EXPRESSIONS) |->
               IF contains(text_lower, COMPOUND_EXPRESSIONS[i].expr)
               THEN COMPOUND_EXPRESSIONS[i].sentiment ELSE 0])

\* The text handed to the keyword count when no compound expression is
\* taken out of it.
text_for_keywords_kept(text_lower) == text_lower

\* Step 2, lines 254-257: the compound expressions, in their order, are
\* replaced by a space.
RECURSIVE remove_compounds(_, _)
remove_compounds(text, i) ==
    IF i > Len(COMPOUND_EXPRESSIONS) THEN text
    ELSE remove_compounds(IF contains(text, COMPOUND_EXPRESSIONS[i].expr)
                          THEN replace(text, COMPOUND_EXPRESSIONS[i].expr, <<32>>)
                          ELSE text,
                          i + 1)

text_for_keywords(text_lower) == remove_compounds(text_lower, 1)

\* Lines 259-272: the effective counts, negation and compounds applied.
effective_counts(text) ==
    LET text_lower == lower(text)
        pos == _count_with_negation(text_for_keywords(text_lower), POSITIVE_KEYWORDS)
        neg == _count_with_negation(text_for_keywords(text_lower), NEGATIVE_KEYWORDS)
        compound == compound_score(text_lower)
    IN [positive_count |-> pos.normal + neg.negated + (IF compound > 0 THEN compound ELSE 0),
        negative_count |-> neg.normal + pos.negated + (IF compound < 0 THEN -compound ELSE 0)]

RatMax(a, b) == IF RatLe(a, b) THEN b ELSE a

\* The score as the share of the net count in all counted keywords.
ratio_score_share(positive_count, negative_count) ==
    IF positive_count = negative_count THEN Zero
    ELSE Rat(positive_count - negative_count, positive_count + negative_count)

\* Step 3, lines 275-280.
ratio_score(positive_count, negative_count) ==
    IF negative_count > positive_count
    THEN RatSub(Zero, RatMin(One, Rat(negative_count, SetMax({1, positive_count + 1}))))
    ELSE IF positive_count > negative_count
    THEN RatMin(One, Rat(positive_count, SetMax({1, negative_count + 1})))
    ELSE Zero

\* A fallback that takes over whenever one side has hits and the other none.
fallback_overriding(score, positive_count, negative_count) ==
    IF negative_count > 0 /\ positive_count = 0 THEN Rat(-1, 2)
    ELSE IF positive_count > 0 /\ negative_count = 0 THEN Rat(1, 2)
    ELSE score

\* Step 4, lines 284-288.
fallback(score, positive_count, negative_count) ==
    IF score = Zero
    THEN IF negative_count > 0 /\ positive_count = 0 THEN Rat(-1, 2)
         ELSE IF positive_count > 0 /\ negative_count = 0 THEN Rat(1, 2)
         ELSE score
    ELSE score

\* calculate_sentiment_score(text).
calculate_sentiment_score(text) ==
    IF Len(text) = 0 THEN Zero
    ELSE LET c == effective_counts(text)
             score == fallback(ratio_score(c.positive_count, c.negative_count),
                               c.positive_count, c.negative_count)
         IN RatMax(Rat(-1, 1), RatMin(One, score))

\* any(kw in title for kw in keywords)
any_in(title, keywords) == \E i \in 1..Len(keywords) : contains(title, keywords[i])

\* The strong-keyword step without its bounds.
strong_bonus_unclamped(sentiment, strong_pos, strong_neg) ==
    RatAdd(sentiment, RatAdd(IF strong_pos THEN Rat(3, 10) ELSE Zero,
                             IF strong_neg THEN Rat(-3, 10) ELSE Zero))

\* analyze_news, lines 435-436.
strong_bonus(sentiment, strong_pos, strong_neg) ==
    LET raised == IF strong_pos THEN RatMin(One, RatAdd(sentiment, Rat(3, 10))) ELSE sentiment
    IN IF strong_neg THEN RatMax(Rat(-1, 1), RatSub(raised, Rat(3, 10))) ELSE raised

\* analyze_news, lines 425-436 and 463: the sentiment_score it stores.
analyze_news_sentiment(title, content) ==
    LET title_sentiment == calculate_sentiment_score(title)
        content_sentiment == calculate_sentiment_score(content)
        sentiment == RatAdd(RatMul(title_sentiment, Rat(7, 10)),
                            RatMul(content_sentiment, Rat(3, 10)))
    IN Round3(strong_bonus(sentiment, any_in(title, STRONG_POSITIVE),
                           any_in(title, STRONG_NEGATIVE)))

(***************************************************************************)
(* SpecSentiment: the analyzer on drawn titles and contents                *)
(***************************************************************************)
\* The most words of a title.
MaxWords == 3

\* The texts of n words, a space between two words.
RECURSIVE TextsOf(_)
TextsOf(n) ==
    IF n = 0 THEN {<<>>}
    ELSE IF n = 1 THEN Vocabulary
    ELSE {t \o <<32>> \o w : t \in TextsOf(n - 1), w \in Vocabulary}

Titles == UNION {TextsOf(n) : n \in 0..MaxWords}

\* The contents drawn: none, a rise, a fall.
Contents == {<<>>, SANGSEUNG, HARAK}

SentimentInit ==
    /\ WindowIdle
    /\ ValIdle
    /\ ClassifyIdle
    /\ GridIdle
    /\ CacheIdle
    /\ LaterIdle
    /\ RunIdle
    /\ FetchIdle
    /\ AggIdle
    /\ \E title \in Titles, content \in Contents : args = [title |-> title, content |-> content]

\* calculate_sentiment_score on the title.
CalculateSentimentScore ==
    /\ result' = [op |-> "calculate_sentiment_score",
                  text_for_keywords |-> text_for_keywords(lower(args.title)),
                  counts |-> effective_counts(args.title),
                  score |-> calculate_sentiment_score(args.title)]
    /\ UNCHANGED <<news, today, market, _volume_cache, _volume_cache_loaded, cacheVars,
                   windowVars, valVars, classifyVars, gridVars, extraVars>>

\* analyze_news on the article: its sentiment_score.
AnalyzeNews ==
    /\ result' = [op |-> "analyze_news",
                  title_sentiment |-> calculate_sentiment_score(args.title),
                  content_sentiment |-> calculate_sentiment_score(args.content),
                  strong_pos |-> any_in(args.title, STRONG_POSITIVE),
                  strong_neg |-> any_in(args.title, STRONG_NEGATIVE),
                  sentiment_score |-> analyze_news_sentiment(args.title, args.content)]
    /\ UNCHANGED <<news, today, market, _volume_cache, _volume_cache_loaded, cacheVars,
                   windowVars, valVars, classifyVars, gridVars, extraVars>>

SentimentNext == CalculateSentimentScore \/ AnalyzeNews

SpecSentiment == SentimentInit /\ [][SentimentNext]_vars

(***************************************************************************)
(* SpecNegation: the keyword count with negation on drawn texts            *)
(***************************************************************************)
\* The most words of a text.
NegMaxWords == 4

\* The words of the texts: a positive keyword, a negative keyword, a
\* negation word and a word of no lexicon.
NegVocabulary == {SANGSEUNG, HARAK, AN, JUGA}

\* The texts of n words of a vocabulary, a space between two words.
RECURSIVE TextsOver(_, _)
TextsOver(words, n) ==
    IF n = 0 THEN {<<>>}
    ELSE IF n = 1 THEN words
    ELSE {t \o <<32>> \o w : t \in TextsOver(words, n - 1), w \in words}

NegationInit ==
    /\ WindowIdle
    /\ ValIdle
    /\ ClassifyIdle
    /\ GridIdle
    /\ CacheIdle
    /\ LaterIdle
    /\ RunIdle
    /\ FetchIdle
    /\ AggIdle
    /\ \E n \in 0..NegMaxWords : \E text \in TextsOver(NegVocabulary, n) :
         args = [text |-> text]

\* _count_with_negation(text, keywords) for one of the two lexicons.
CountWithNegation ==
    /\ \E lexicon \in {"positive", "negative"} :
         result' = [op |-> "_count_with_negation", lexicon |-> lexicon,
                    count |-> _count_with_negation(
                                  args.text,
                                  IF lexicon = "positive" THEN POSITIVE_KEYWORDS
                                  ELSE NEGATIVE_KEYWORDS)]
    /\ UNCHANGED <<news, today, market, _volume_cache, _volume_cache_loaded, cacheVars,
                   windowVars, valVars, classifyVars, gridVars, extraVars>>

\* calculate_sentiment_score, lines 259-272: the effective counts of a text.
EffectiveCounts ==
    /\ result' = [op |-> "effective_counts", counts |-> effective_counts(args.text)]
    /\ UNCHANGED <<news, today, market, _volume_cache, _volume_cache_loaded, cacheVars,
                   windowVars, valVars, classifyVars, gridVars, extraVars>>

NegationNext == CountWithNegation \/ EffectiveCounts

SpecNegation == NegationInit /\ [][NegationNext]_vars

(***************************************************************************)
(* SpecCancel: grid_search_buy and grid_search_sell, one combination at a  *)
(* time                                                                    *)
(***************************************************************************)
\* BUY_GRID as the lists product() walks, in hundredths.
BUY_AXES ==
    <<<<5, 10, 15, 20, 25, 30>>, <<30, 40, 50, 60>>, <<3, 5, 7, 10>>, <<30, 50, 60, 70, 80>>>>

\* SELL_GRID as the lists product() walks, in hundredths.
SELL_AXES ==
    <<<<-5, -10, -15, -20, -25, -30>>, <<30, 25, 20, 15, 10>>, <<3, 5, 7, 10>>,
      <<30, 50, 60, 70, 80>>>>

\* list(itertools.product(a, b, c, d)): the last list varies fastest.
product(axes) ==
    LET la == Len(axes[1])
        lb == Len(axes[2])
        lc == Len(axes[3])
        ld == Len(axes[4])
    IN [i \in 1..(la * lb * lc * ld) |->
          <<axes[1][((i - 1) \div (lb * lc * ld)) + 1],
            axes[2][(((i - 1) \div (lc * ld)) % lb) + 1],
            axes[3][(((i - 1) \div ld) % lc) + 1],
            axes[4][((i - 1) % ld) + 1]>>]

\* combos of grid_search_buy.
BUY_COMBOS == product(BUY_AXES)

\* combos of grid_search_sell.
SELL_COMBOS == product(SELL_AXES)

\* The loop's locals before its first iteration: nothing is bound.
unbound_locals == [selected |-> {}, stats |-> <<>>, best_excess |-> None]

\* selected with the list of the iteration before kept.
selected_carried(locals) == locals.selected

\* selected = [] at the head of every iteration.
selected_reset(locals) == {}

\* One iteration of the loop of grid_search_buy or grid_search_sell over the
\* combination c: the locals it leaves and the results list after it.
grid_iteration(side, stats, rmap, benchmark_returns, c, locals, results) ==
    LET picked == IF side = "buy" THEN buy_selected(stats, rmap, c[1], c[2], c[3], c[4])
                  ELSE sell_selected(stats, rmap, c[1], c[2], c[3], c[4])
        selected == selected_reset(locals) \cup picked
        min_samples == IF side = "buy" THEN MIN_BUY_SAMPLES ELSE MIN_SELL_SAMPLES
        group == group_stats(selected, rmap, benchmark_returns, side)
        best == best_excess(group)
        entry == IF side = "buy"
                 THEN [sentiment |-> c[1], overall |-> c[2], count |-> c[3], ratio |-> c[4],
                       stats |-> group, best_excess |-> best, n |-> Cardinality(selected)]
                 ELSE [sentiment |-> c[1], overall |-> c[2], count |-> c[3], neg_ratio |-> c[4],
                       stats |-> group, best_excess |-> best, n |-> Cardinality(selected)]
    IN IF Cardinality(selected) < min_samples
       THEN [locals |-> [locals EXCEPT !.selected = selected], results |-> results]
       ELSE [locals |-> [selected |-> selected, stats |-> group, best_excess |-> <<best>>],
             results |-> IF DOMAIN group # {} THEN results \cup {entry} ELSE results]

\* main has collected the prices and computed returns_map and the benchmark;
\* grid_search_buy is entered.
CancelInit ==
    /\ RunIdle
    /\ FetchIdle
    /\ CallIdle
    /\ SchedIdle
    /\ StoreIdle
    /\ WindowIdle
    /\ ValIdle
    /\ ClassifyIdle
    /\ news = <<>>
    /\ today = GridDays + 2
    /\ result = [op |-> "none"]
    /\ \E path \in GridPaths :
         market = [c \in StockCodes |-> [d \in 1..(GridDays + 2) |-> GridBar(path, c, d)]]
    /\ _volume_cache = <<>>
    /\ _volume_cache_loaded = FALSE
    /\ price_cache = <<>>
    /\ \E ups \in {GridDays - 3, GridDays - 2} : daily_stats = [d \in 1..GridDays |-> GridStats(d <= ups)]
    /\ price_cache_pkl = <<[c \in StockCodes |->
                              DataFrame(get_daily_price(market[c], RETURN_PAGES))]>>
    /\ returns_map = precompute_returns(daily_stats, price_cache_pkl[1])
    /\ benchmark = calc_benchmark(daily_stats, returns_map)
    /\ grid_pc = "benchmark"
    /\ buy_results = {}
    /\ sell_results = {}
    /\ combo_k = 0
    /\ loop_locals = unbound_locals
    /\ full_run = [daily_stats |-> daily_stats, returns_map |-> returns_map,
                   benchmark |-> benchmark,
                   buy |-> grid_search_buy(daily_stats, returns_map, benchmark),
                   sell |-> grid_search_sell(daily_stats, returns_map, benchmark)]

\* grid_search_buy: one pass of the loop over combos.
BuyCombination ==
    /\ grid_pc = "benchmark"
    /\ combo_k < Len(BUY_COMBOS)
    /\ LET after == grid_iteration("buy", daily_stats, returns_map, benchmark,
                                   BUY_COMBOS[combo_k + 1], loop_locals, buy_results)
       IN /\ loop_locals' = after.locals
          /\ buy_results' = after.results
    /\ combo_k' = combo_k + 1
    /\ UNCHANGED <<grid_pc, daily_stats, returns_map, benchmark, sell_results, full_run,
                   cacheVars, aggVars, windowVars, valVars, classifyVars, runVars, fetchVars,
                   callVars, schedVars, storeVars>>

\* grid_search_buy returns; main enters grid_search_sell.
BuyReturn ==
    /\ grid_pc = "benchmark"
    /\ combo_k = Len(BUY_COMBOS)
    /\ grid_pc' = "buy"
    /\ combo_k' = 0
    /\ loop_locals' = unbound_locals
    /\ UNCHANGED <<daily_stats, returns_map, benchmark, buy_results, sell_results, full_run,
                   cacheVars, aggVars, windowVars, valVars, classifyVars, runVars, fetchVars,
                   callVars, schedVars, storeVars>>

\* grid_search_sell: one pass of the loop over combos.
SellCombination ==
    /\ grid_pc = "buy"
    /\ combo_k < Len(SELL_COMBOS)
    /\ LET after == grid_iteration("sell", daily_stats, returns_map, benchmark,
                                   SELL_COMBOS[combo_k + 1], loop_locals, sell_results)
       IN /\ loop_locals' = after.locals
          /\ sell_results' = after.results
    /\ combo_k' = combo_k + 1
    /\ UNCHANGED <<grid_pc, daily_stats, returns_map, benchmark, buy_results, full_run,
                   cacheVars, aggVars, windowVars, valVars, classifyVars, runVars, fetchVars,
                   callVars, schedVars, storeVars>>

\* grid_search_sell returns.
SellReturn ==
    /\ grid_pc = "buy"
    /\ combo_k = Len(SELL_COMBOS)
    /\ grid_pc' = "sell"
    /\ combo_k' = 0
    /\ loop_locals' = unbound_locals
    /\ UNCHANGED <<daily_stats, returns_map, benchmark, buy_results, sell_results, full_run,
                   cacheVars, aggVars, windowVars, valVars, classifyVars, runVars, fetchVars,
                   callVars, schedVars, storeVars>>

CancelNext == BuyCombination \/ BuyReturn \/ SellCombination \/ SellReturn

SpecCancel == CancelInit /\ [][CancelNext]_vars

(***************************************************************************)
(* SpecSched: NewsScheduler.start() and the one-minute job                 *)
(***************************************************************************)
\* Minutes of a day.
DAY_MINUTES == 1440

\* now.weekday(): 0 is Monday.
weekday(t) == (t \div DAY_MINUTES) % 7

\* now.time(), in minutes since midnight.
time_of_day(t) == t % DAY_MINUTES

\* dt_time(9, 0)
MARKET_OPEN == 540

\* dt_time(15, 30)
MARKET_CLOSE == 930

\* is_market_open at the instant t.
is_market_open(t) ==
    IF weekday(t) >= 5 THEN FALSE
    ELSE MARKET_OPEN <= time_of_day(t) /\ time_of_day(t) <= MARKET_CLOSE

\* get_collection_interval at the instant t, in minutes.
get_collection_interval(t) ==
    IF is_market_open(t) THEN 1
    ELSE IF weekday(t) >= 5 THEN 30
    ELSE 5

\* Jobs the scheduler runs after start(), at most.
MaxTicks == 40

\* An instant of the first week.
At(day, hour, minute) == day * DAY_MINUTES + hour * 60 + minute

\* When start() is called: shortly before the market opens and before it
\* closes on a Friday, before midnight on Friday and on Sunday, and on
\* Saturday at noon.
StartTimes == {At(4, 8, 50), At(4, 15, 20), At(4, 23, 40), At(6, 23, 40), At(5, 12, 0)}

\* NewsScheduler(): nothing collected yet, the interval at its default.
SchedInit ==
    /\ RunIdle
    /\ FetchIdle
    /\ CallIdle
    /\ CancelIdle
    /\ StoreIdle
    /\ WindowIdle
    /\ AggIdle
    /\ CacheIdle
    /\ ValIdle
    /\ ClassifyIdle
    /\ GridIdle
    /\ clock \in StartTimes
    /\ last_collection_time = None
    /\ collection_interval = 1
    /\ collections = <<>>

\* start(): the job is registered and collect_all_news runs at once;
\* last_collection_time is left as it is.
Start ==
    /\ collections = <<>>
    /\ collections' = <<clock>>
    /\ UNCHANGED <<clock, last_collection_time, collection_interval, cancelVars, storeVars,
                   runVars, fetchVars, callVars, windowVars, aggVars, cacheVars, valVars,
                   classifyVars, gridVars>>

\* A minute passes and the job fires: collect_with_smart_interval.
Tick ==
    /\ collections # <<>>
    /\ clock < collections[1] + MaxTicks
    /\ LET now == clock + 1
           new_interval == get_collection_interval(now)
           should_collect ==
               IF last_collection_time = None THEN TRUE
               ELSE now - last_collection_time[1] >= new_interval
       IN /\ clock' = now
          /\ collection_interval' = new_interval
          /\ collections' = IF should_collect THEN Append(collections, now) ELSE collections
          /\ last_collection_time' = IF should_collect THEN <<now>> ELSE last_collection_time
    /\ UNCHANGED <<cancelVars, storeVars, runVars, fetchVars, callVars, windowVars, aggVars,
                   cacheVars, valVars, classifyVars, gridVars>>

SchedNext == Start \/ Tick

SpecSched == SchedInit /\ [][SchedNext]_vars

(***************************************************************************)
(* SpecStore: insert_news, insert_news_batch and reprocess_data            *)
(***************************************************************************)
\* Calls of insert_news recorded, at most.
MaxCalls == 4

\* news_id of the articles: the crawler's source name is part of it.
StoreIds == {"hankyung_1", "naver_finance_1"}

\* The source an article comes from.
SourceOf(news_id) == IF news_id = "hankyung_1" THEN "hankyung" ELSE "naver_finance"

\* The scores of an article: those analyze_news put on it, given its
\* sentiment_score, or none (an article stored before the analyzer existed,
\* or whose analysis raised).
StoreScores(sentiment) ==
    IF sentiment # None
    THEN [sentiment_score |-> sentiment,
          importance_score |-> Some(Rat(1, 2)), impact_score |-> Some(Rat(1, 2)),
          timeliness_score |-> Some(One), overall_score |-> Some(Rat(1, 2))]
    ELSE [sentiment_score |-> None, importance_score |-> None, impact_score |-> None,
          timeliness_score |-> None, overall_score |-> None]

\* An article as it is handed to insert_news.
StoreArticle(news_id, title, content, related_stocks, sentiment) ==
    [news_id |-> news_id, title |-> title, content |-> content,
     published_at |-> DateStr(2) \o T_MORNING, source |-> SourceOf(news_id),
     url |-> news_id, related_stocks |-> related_stocks, duplicate_count |-> 0]
    @@ StoreScores(sentiment)

\* The articles handed to insert_news: under each news_id one without
\* content, codes and scores, and two analyzed ones that differ in title,
\* content and scores.
StoreArticles ==
    UNION {{StoreArticle(id, SANGSEUNG, <<>>, <<>>, None),
            StoreArticle(id, SANGSEUNG, JUGA, <<"005930">>, Some(Rat(7, 10))),
            StoreArticle(id, HARAK, <<>>, <<"005930">>, Some(Rat(-7, 10)))} : id \in StoreIds}

\* The value insert_news returns: both branches commit and return True; the
\* except branches need a statement that fails, which a row with its
\* required columns does not cause.
insert_news_returns(db, news_data) == TRUE

\* insert_news_batch: the rows after the list, the calls made, and the count.
RECURSIVE insert_news_batch(_, _)
insert_news_batch(db, news_list) ==
    IF Len(news_list) = 0 THEN [db |-> db, calls |-> <<>>, success_count |-> 0]
    ELSE LET returned == insert_news_returns(db, Head(news_list))
             rest == insert_news_batch(insert_news(db, Head(news_list)), Tail(news_list))
         IN [db |-> rest.db,
             calls |-> <<[news_data |-> Head(news_list), returned |-> returned]>> \o rest.calls,
             success_count |-> rest.success_count + (IF returned THEN 1 ELSE 0)]

\* get_latest_news(limit), order aside.
get_latest_news(db, limit) == Latest(db, limit)

\* limit of reprocess_data's get_latest_news.
REPROCESS_LIMIT == 100000

\* A content shorter than this is crawled again.
CONTENT_MIN == 50

\* The sources reprocess_data has a detail crawler for.
DETAIL_SOURCES == {"hankyung", "mk_news"}

\* What the outside gives while one row is reprocessed: the content
\* crawl_news_detail finds (None: nothing, or it raised), the codes
\* extract_stock_codes finds, and the importance, impact and timeliness
\* scores.
ReprocessDraws ==
    [detail : {None, Some(HARAK \o <<32>> \o JUGA)},
     new_stocks : {<<>>, <<"005930">>},
     scores : {<<Rat(1, 2), Rat(1, 2), One>>, <<Zero, Zero, Zero>>}]

\* overall_score of reprocess_data, lines 90-95.
reprocess_overall(sentiment, importance, impact, timeliness) ==
    RatAdd(RatAdd(RatMul(sentiment, Rat(1, 2)), RatMul(importance, Rat(1, 5))),
           RatAdd(RatMul(impact, Rat(1, 5)), RatMul(timeliness, Rat(1, 10))))

\* Step 1 of reprocess_data: the content after the detail crawl of a row
\* whose content is missing or short.
reprocess_content(row, draw) ==
    IF /\ Len(row.content) < CONTENT_MIN
       /\ row.source \in DETAIL_SOURCES
       /\ Len(row.url) > 0
       /\ draw.detail # None
       /\ Len(draw.detail[1]) > Len(row.content)
    THEN draw.detail[1]
    ELSE row.content

\* Lines 97-101: the rounded scores are put on the dict.
with_scores(row, sentiment, importance, impact, timeliness) ==
    [row EXCEPT !.sentiment_score = Some(Round3(sentiment)),
                !.importance_score = Some(Round3(importance)),
                !.impact_score = Some(Round3(impact)),
                !.timeliness_score = Some(Round3(timeliness)),
                !.overall_score = Some(Round3(reprocess_overall(sentiment, importance, impact,
                                                                timeliness)))]

\* Step 2 of reprocess_data: a row without sentiment_score is analyzed on its
\* title and the content of step 1.
reprocess_scores(row, content, draw) ==
    IF row.sentiment_score = None
    THEN with_scores(row, calculate_sentiment_score(row.title \o <<32>> \o content),
                     draw.scores[1], draw.scores[2], draw.scores[3])
    ELSE row

\* Step 3 of reprocess_data: whether the codes found replace the row's.
restocked(row, draw) ==
    /\ Len(row.related_stocks) = 0
    /\ Len(draw.new_stocks) > Len(row.related_stocks)

\* Step 4, lines 129-130: the content of step 1 is put on the dict.
with_content(row, content) == IF Len(content) > 0 THEN [row EXCEPT !.content = content] ELSE row

\* Steps 1 to 3 of reprocess_data on one row: whether it was updated, and the
\* dict handed to insert_news if it was.
reprocess_row(row, draw) ==
    [updated |-> \/ reprocess_content(row, draw) # row.content
                 \/ row.sentiment_score = None
                 \/ restocked(row, draw),
     news |-> with_content(
                  [reprocess_scores(row, reprocess_content(row, draw), draw)
                      EXCEPT !.related_stocks = IF restocked(row, draw) THEN draw.new_stocks
                                                ELSE @],
                  reprocess_content(row, draw))]

\* reprocess_data from row i of all_news on: the rows of the table after it,
\* and the dicts it handed to insert_news.
RECURSIVE reprocess_from(_, _, _, _, _)
RECURSIVE reprocess_save(_, _, _, _, _, _)
reprocess_from(db, updates, all_news, draws, i) ==
    IF i > Len(all_news) THEN [db |-> db, updates |-> updates]
    ELSE reprocess_save(db, updates, all_news, draws, i, reprocess_row(all_news[i], draws[i]))

\* Step 4 of reprocess_data for one row, and the rows after it.
reprocess_save(db, updates, all_news, draws, i, one) ==
    IF one.updated
    THEN reprocess_from(insert_news(db, one.news), Append(updates, one.news), all_news, draws,
                        i + 1)
    ELSE reprocess_from(db, updates, all_news, draws, i + 1)

\* The calls of insert_news a list of dicts stands for.
CallsOf(db, news_list) ==
    [i \in 1..Len(news_list) |->
        [news_data |-> news_list[i], returned |-> insert_news_returns(db, news_list[i])]]

\* NewsDatabase(): an empty table.
StoreInit ==
    /\ RunIdle
    /\ FetchIdle
    /\ CallIdle
    /\ CancelIdle
    /\ SchedIdle
    /\ WindowIdle
    /\ AggIdle
    /\ CacheIdle
    /\ ValIdle
    /\ ClassifyIdle
    /\ GridIdle
    /\ insert_calls = <<>>

\* NewsDatabase.insert_news(news_data).
StoreInsertNews ==
    /\ Len(insert_calls) < MaxCalls
    /\ \E a \in StoreArticles :
         /\ news' = insert_news(news, a)
         /\ insert_calls' = Append(insert_calls,
                                   [news_data |-> a, returned |-> insert_news_returns(news, a)])
         /\ result' = [op |-> "insert_news", value |-> insert_news_returns(news, a)]
    /\ UNCHANGED <<today, market, _volume_cache, _volume_cache_loaded, cancelVars, schedVars,
                   runVars, fetchVars, callVars, windowVars, cacheVars, valVars, classifyVars,
                   gridVars>>

\* NewsDatabase.insert_news_batch(news_list) as collect_all_news calls it:
\* on the analyzed articles of one crawl.
StoreInsertBatch ==
    /\ Len(insert_calls) + 2 <= MaxCalls
    /\ \E a \in StoreArticles, b \in StoreArticles :
         /\ a.sentiment_score # None
         /\ b.sentiment_score # None
         /\ LET batch == insert_news_batch(news, <<a, b>>)
            IN /\ news' = batch.db
               /\ insert_calls' = insert_calls \o batch.calls
               /\ result' = [op |-> "insert_news_batch", news_list |-> <<a, b>>,
                             value |-> batch.success_count]
    /\ UNCHANGED <<today, market, _volume_cache, _volume_cache_loaded, cancelVars, schedVars,
                   runVars, fetchVars, callVars, windowVars, cacheVars, valVars, classifyVars,
                   gridVars>>

\* reprocess_data(): every stored row is looked at once.
ReprocessData ==
    /\ Len(news) > 0
    /\ Len(insert_calls) + Len(news) <= MaxCalls
    /\ LET all_news == get_latest_news(news, REPROCESS_LIMIT)
       IN \E draws \in [1..Len(all_news) -> ReprocessDraws] :
            LET done == reprocess_from(news, <<>>, all_news, draws, 1)
            IN /\ news' = done.db
               /\ insert_calls' = insert_calls \o CallsOf(news, done.updates)
               /\ result' = [op |-> "reprocess_data", updates |-> done.updates]
    /\ UNCHANGED <<today, market, _volume_cache, _volume_cache_loaded, cancelVars, schedVars,
                   runVars, fetchVars, callVars, windowVars, cacheVars, valVars, classifyVars,
                   gridVars>>

StoreNext == StoreInsertNews \/ StoreInsertBatch \/ ReprocessData

SpecStore == StoreInit /\ [][StoreNext]_vars

(***************************************************************************)
(* SpecReplay: one day's articles analysed by the live analyzer and by the *)
(* backtest                                                                *)
(***************************************************************************)
\* The day analysed.
ReplayDay == 2

\* related_stocks of the day's articles: a listed stock, Coupang as the
\* crawlers' name table codes it (base_crawler.py, line 37), and both.
ReplayRelated == {<<"005930">>, <<"CPNG">>, <<"005930", "CPNG">>}

\* How many articles the day has: around the minimum counts of the sell and
\* the buy filter.
ReplayCounts == {1, 6, 7, 9, 10}

\* (sentiment_score, overall_score) of the day's articles.
ReplayScores == {<<Some(60), Some(70)>>, <<Some(-40), Some(20)>>, <<Some(0), Some(50)>>}

\* How many articles the day before has: the volume baseline.
ReplayBefore == {0, 2}

\* The provider's closes of day 1 and day 2.
ReplayHistories ==
    {<<[date |-> 1, open |-> 100, close |-> 100], [date |-> 2, open |-> 100, close |-> c]>> :
        c \in {100, 104}}

\* What the provider returns now for each code the rows name: the latest page
\* of a listed stock, nothing for any other code.
fetch_latest(mkt, codes) ==
    [c \in codes |-> IF c \in DOMAIN mkt THEN DataFrame(get_daily_price(mkt[c], 1)) ELSE Failed]

ReplayInit ==
    /\ ExtraIdle
    /\ WindowIdle
    /\ ClassifyIdle
    /\ GridIdle
    /\ \E rs \in ReplayRelated, n \in ReplayCounts, sc \in ReplayScores, h \in ReplayBefore :
         news = Table(Rows(ReplayDay - 1, rs, sc, h) \o Rows(ReplayDay, rs, sc, n))
    /\ today = ReplayDay
    /\ result = [op |-> "none"]
    /\ \E history \in ReplayHistories : market = [c \in StockCodes |-> history]
    /\ _volume_cache = <<>>
    /\ _volume_cache_loaded = FALSE
    /\ price_cache_pkl = <<>>
    /\ \E cached \in BOOLEAN :
         price_cache = [c \in StockCodes |->
                          IF cached THEN DataFrame(get_daily_price(market[c], RETURN_PAGES))
                          ELSE Absent]
    /\ _volume_avg_cache = <<>>
    /\ _volume_loaded = FALSE
    /\ val_run = [pc |-> "idle"]
    /\ prev = <<>>

\* The articles of the day analysed.
replay_news == get_news_by_date_range(news, DateStr(today) \o T_START, DateStr(today) \o T_END)

\* TradingAnalyzer.analyze_today_stocks() on the day; the first stock it
\* reaches loads the volume cache.
ReplayLive ==
    LET loads == CodesOf(replay_news) # {} /\ ~_volume_cache_loaded
        vcache == IF loads THEN load_volume_cache(news) ELSE _volume_cache
    IN /\ result' = [op |-> "analyze_today_stocks", date |-> today,
                     value |-> analyze_today_stocks(news, today,
                                                    fetch_latest(market, CodesOf(replay_news)),
                                                    vcache)]
       /\ _volume_cache' = vcache
       /\ _volume_cache_loaded' = (_volume_cache_loaded \/ loads)
       /\ UNCHANGED <<news, today, market, notAggVars>>

\* validate_signals.analyze_stocks_for_date(db, day, price_cache); the first
\* valid code it reaches loads the volume cache.
ReplayBacktest ==
    LET loads == (\E c \in CodesOf(replay_news) : IsStockCode(c)) /\ ~_volume_loaded
        vcache == IF loads THEN load_volume_cache(news) ELSE _volume_avg_cache
    IN /\ result' = [op |-> "validate_signals.analyze_stocks_for_date", date |-> today,
                     value |-> val_analyze_stocks_for_date(news, today, price_cache, vcache)]
       /\ _volume_avg_cache' = vcache
       /\ _volume_loaded' = (_volume_loaded \/ loads)
       /\ UNCHANGED <<news, today, market, _volume_cache, _volume_cache_loaded, cacheVars,
                      val_run, prev, windowVars, extraVars, classifyVars, gridVars>>

ReplayNext == ReplayLive \/ ReplayBacktest

SpecReplay == ReplayInit /\ [][ReplayNext]_vars

\* ======================= end of the model; the claims =======================

(***************************************************************************)
(* C1. Backtest leakage guard: whatever the number of trading days of the  *)
(* evaluation window, none of its last max(holding days) trading days      *)
(* (10 for HOLDING_DAYS) is in the signal-generation set.                  *)
(***************************************************************************)
C1_LeakageGuard ==
    /\ wpc = "main" =>
         SeqSet(LastN(trading_days, SetMax(SeqSet(HOLDING_DAYS)))) \cap signal_stats = {}
    /\ wpc = "validation" =>
         SeqSet(LastN(trading_days, SetMax(SeqSet(holding_days))))
             \cap SeqSet(signal_days) = {}

\* The rows of db published on calendar day d.
OnDay(db, d) == SelectSeq(db, LAMBDA n : DayOf(n.published_at) = d)

(***************************************************************************)
(* C2. Aggregator date-scoping: what analyze_stocks_for_date(D) returns is *)
(* computed from the rows published on calendar day D alone: it is what    *)
(* the same call returns on a table holding only the rows of day D, so a   *)
(* row of day D+1 (or of any other day) adds to no count and no average of *)
(* day D.  The same holds of analyze_today_stocks and today.               *)
(***************************************************************************)
C2_DateScoping ==
    /\ result.op = "analyze_stocks_for_date" =>
         result.value = opt_analyze_stocks_for_date(OnDay(news, result.date), result.date)
    /\ result.op = "analyze_today_stocks" =>
         result.value =
            analyze_today_stocks(OnDay(news, today), today,
                                 [c \in StockCodes |-> DataFrame(get_daily_price(market[c], 1))],
                                 _volume_cache)

\* Day 2 was analysed while the table held a row of day 2 and a row of day 3.
C2_Witness ==
    /\ result.op = "analyze_stocks_for_date"
    /\ result.date = 2
    /\ result.value # {}
    /\ \E i \in 1..Len(news) : DayOf(news[i].published_at) = 3
    /\ \E s \in result.value : s.news_count = 1

(***************************************************************************)
(* C8. Null scores are absent, not zero: a stock-day none of whose rows    *)
(* has a sentiment_score (resp. overall_score) does not get the average    *)
(* 0.0 of a neutral stock-day.                                             *)
(***************************************************************************)
C8_NullNotZero ==
    /\ result.op = "analyze_stocks_for_date" =>
         \A s \in result.value :
            LET rows == Mentions(OnDay(news, result.date), s.stock_code)
            IN /\ Len(SentimentScores(rows)) = 0 => s.avg_sentiment # Zero
               /\ Len(OverallScores(rows)) = 0 => s.avg_overall # Zero
    /\ result.op = "analyze_today_stocks" =>
         \A s \in result.value.stock_stats :
            LET rows == Mentions(OnDay(news, today), s.stock_code)
            IN /\ Len(SentimentScores(rows)) = 0 => s.avg_sentiment # Zero
               /\ Len(OverallScores(rows)) = 0 => s.avg_overall # Zero

(***************************************************************************)
(* C9. No data is not neutral data: no aggregation of a stock over a date  *)
(* returns a record with news_count 0 and averages 0.0.                    *)
(***************************************************************************)
C9_NoZeroFilled ==
    /\ result.op = "analyze_stocks_for_date" =>
         \A s \in result.value : s.news_count > 0
    /\ result.op = "analyze_today_stocks" =>
         \A s \in result.value.stock_stats : s.news_count > 0
    /\ result.op = "get_stock_signal" =>
         ~(/\ result.value.news_count = 0
           /\ result.value.avg_sentiment = Zero
           /\ result.value.avg_overall = Zero)

\* The bars of the stock's trading days strictly after day d, oldest first.
MarketAfter(c, d) == SelectSeq(market[c], LAMBDA b : b.date > d)

\* The return of a signal of day d on stock c over h trading days: bought at
\* the open of the first trading day after d, sold at the close of the h-th.
ForwardReturn(c, d, h) ==
    LET after == MarketAfter(c, d)
    IN IF h <= Len(after)
       THEN Some(Rat(after[h].close - after[1].open, after[1].open))
       ELSE None

(***************************************************************************)
(* C3. Forward return: whenever the price history of the stock was fetched *)
(* (the cache holds a non-empty table), each horizon's return is the one   *)
(* from the open of the market's first trading day strictly after D to the *)
(* close of the h-th, and is absent when fewer than h trading days follow. *)
(***************************************************************************)
C3_ForwardReturn ==
    /\ (result.op = "get_returns"
            /\ price_cache_pkl[1][result.stock_code].state = "df"
            /\ Len(price_cache_pkl[1][result.stock_code].bars) > 0) =>
         \A h \in DOMAIN result.value :
            result.value[h] = ForwardReturn(result.stock_code, result.date, h)
    /\ (result.op = "get_returns_after_signal"
            /\ price_cache[result.stock_code].state = "df"
            /\ Len(price_cache[result.stock_code].bars) > 0) =>
         \A h \in DOMAIN result.value :
            result.value[h] = ForwardReturn(result.stock_code, result.date, h)

\* The cache with every bar dated on or after day d removed.
BarsBefore(cache, d) ==
    [c \in DOMAIN cache |->
        [cache[c] EXCEPT !.bars = SelectSeq(@, LAMBDA b : b.date < d)]]

(***************************************************************************)
(* C4. Aggregator determinism: when run_validation analyses a date that an *)
(* earlier iteration or run analysed on the same news table, every field   *)
(* of every stock's aggregate is the same as before.                       *)
(***************************************************************************)
C4_Deterministic ==
    (result.op = "run_validation" /\ prev[result.date] # None) =>
        result.value = prev[result.date][1]

(***************************************************************************)
(* C6. Volume baseline: the days whose counts make the average that the    *)
(* volume signal of stock s on replayed day D is computed from are all     *)
(* before D.                                                               *)
(***************************************************************************)
C6_VolumeBaseline ==
    result.op = "run_validation" =>
        \A s \in result.value.all_stocks :
            \A d \in SeqSet(volume_dates(news, s.stock_code)) : d < result.date

(***************************************************************************)
(* C7. Price-reaction lookback: the adjusted sentiment of a stock on date  *)
(* D is the one computed from the bars dated strictly before D alone.      *)
(***************************************************************************)
C7_LookbackBeforeD ==
    result.op = "run_validation" =>
        \A s \in result.value.all_stocks :
            s.adjusted_sentiment =
                val_adjust_for_price_reaction(s.avg_sentiment, s.stock_code, result.date,
                                              BarsBefore(result.price_cache, result.date))

\* The five conditions of a buy, for thresholds in hundredths.
FiveConditions(a, sent_th, overall_th, count_th, ratio_th) ==
    /\ a.avg_sentiment.num * 100 > sent_th * a.avg_sentiment.den
    /\ a.avg_overall.num * 100 > overall_th * a.avg_overall.den
    /\ a.news_count >= count_th
    /\ a.positive_count * 100 >= ratio_th * a.news_count
    /\ a.positive_count > a.negative_count

(***************************************************************************)
(* C5. Buy classification: an aggregate is on the buy list, and its signal *)
(* is buy, exactly when avg_sentiment > 0.30, avg_overall > 0.3,           *)
(* news_count >= 10, positive_ratio >= 0.8 and positive_count >            *)
(* negative_count; so 0.52 / 0.50 / 10 / 9 / 1 is buy, and an aggregate    *)
(* with avg_sentiment exactly 0.30 or avg_overall exactly 0.3 is not.      *)
(***************************************************************************)
C5_BuyClassification ==
    /\ result.op = "candidates" => (result.buy <=> FiveConditions(agg, 30, 30, 10, 80))
    /\ result.op = "signal" =>
         ((result.value.signal = "buy") <=> FiveConditions(agg, 30, 30, 10, 80))
    /\ (result.op \in {"candidates", "signal"}
            /\ (agg.avg_sentiment = Rat(30, 100) \/ agg.avg_overall = Rat(30, 100))) =>
         IF result.op = "candidates" THEN ~result.buy ELSE result.value.signal # "buy"

\* The aggregate 0.52 / 0.50 / 10 / 9 / 1 was classified, as buy.
C5_Witness ==
    /\ agg = Aggregate("005930", 52, 50, 10, 9, 1)
    /\ result.op = "signal"
    /\ result.value.signal = "buy"

\* The pairs of a group that have a return for the horizon.
WithReturn(pairs, hd) ==
    {pr \in pairs : returns_map[<<pr[1], pr[2].stock_code>>][hd] # None}

\* The mean return of a group of (date, stock) pairs over a horizon.
MeanReturn(pairs, hd) ==
    LET rets == [pr \in WithReturn(pairs, hd) |-> returns_map[<<pr[1], pr[2].stock_code>>][hd][1]]
    IN RatDiv(SumOver(DOMAIN rets, rets), Rat(Cardinality(DOMAIN rets), 1))

\* The group a reported buy combination selects.
BuyGroup(r) == buy_selected(daily_stats, returns_map, r.sentiment, r.overall, r.count, r.ratio)

\* The group a reported sell combination selects.
SellGroup(r) ==
    sell_selected(daily_stats, returns_map, r.sentiment, r.overall, r.count, r.neg_ratio)

\* The benchmark of a horizon is the mean return of every (day, stock) pair
\* of the signal-generation set that has one.
BenchmarkIsMean ==
    grid_pc \in {"benchmark", "buy", "sell"} =>
        \A hd \in SeqSet(HOLDING_DAYS) :
            WithReturn(StatPairs(daily_stats), hd) # {} =>
                benchmark[hd] = MeanReturn(StatPairs(daily_stats), hd)

C11_CacheKeyedToPeriod ==
    (opt_run.pc = "collected" /\ opt_run.loaded)
        => pkl_period = <<opt_run.start, opt_run.end>>

\* The cache of the run in progress, and the calls whose fetch failed: a page
\* without a table (exception, non-200 answer, empty table) or a raised call.
RunCache == IF price_cache_pkl # <<>> THEN price_cache_pkl[1] ELSE price_cache

FetchFailedFor(c) ==
    \E i \in 1..Len(attempts[c]) :
        attempts[c][i].raised \/ attempts[c][i].ok # 1..RETURN_PAGES

Unavailable(entry) == entry.state = "none" \/ (entry.state = "df" /\ Len(entry.bars) = 0)

\* C12: when the fetch of a stock fails the run goes on, the stock is held as
\* unavailable in the cache (None or an empty table) and is not fetched again,
\* its returns are absent for every horizon, and the returns of a stock whose
\* fetch did not fail are those of a run in which no fetch failed.
C12_PartialFailure ==
    /\ \A c \in StockCodes :
         /\ Len(attempts[c]) <= 1
         /\ FetchFailedFor(c) => Unavailable(RunCache[c])
    /\ result.op \in {"get_returns", "get_returns_after_signal"} =>
         IF FetchFailedFor(result.stock_code)
         THEN result.returns = NoReturns(HOLDING_DAYS)
         ELSE \/ RunCache[result.stock_code] = Absent
              \/ result.returns =
                   returns_from(DataFrame(get_daily_price(market[result.stock_code],
                                                          RETURN_PAGES)),
                                result.date, HOLDING_DAYS)

\* C14: a failing fetch is retried, a bounded number of times, before the
\* stock is marked unavailable: a stock held as unavailable in the cache of
\* the run has been asked of the provider more than once.
C14_RetriedBeforeUnavailable ==
    \A c \in StockCodes : Unavailable(RunCache[c]) => Len(attempts[c]) >= 2

\* The pairs of a group that have a return for some horizon: those of a stock
\* whose prices are available.
Available(pairs) == UNION {WithReturn(pairs, hd) : hd \in SeqSet(HOLDING_DAYS)}

\* C13: a (day, stock) pair whose returns are None for every horizon is in no
\* sample count of the grid search: the n of a horizon counts the pairs with a
\* return for it, the n of a reported combination counts its pairs with some
\* return, and a combination is reported only when those reach the minimum
\* (10 for buy, 5 for sell).
C13_UnavailableNotSampled ==
    /\ \A r \in buy_results :
         /\ \A hd \in DOMAIN r.stats : r.stats[hd].n = Cardinality(WithReturn(BuyGroup(r), hd))
         /\ r.n = Cardinality(Available(BuyGroup(r)))
         /\ Cardinality(Available(BuyGroup(r))) >= MIN_BUY_SAMPLES
    /\ \A r \in sell_results :
         /\ \A hd \in DOMAIN r.stats : r.stats[hd].n = Cardinality(WithReturn(SellGroup(r), hd))
         /\ r.n = Cardinality(Available(SellGroup(r)))
         /\ Cardinality(Available(SellGroup(r))) >= MIN_SELL_SAMPLES

\* The closes an adjuster compares, <<current, reference>>, or <<>> when the
\* history is unavailable, has fewer than 2 bars (up to the signal date, in
\* the validation) or the reference close is not positive.  The live adjuster
\* compares the latest close with the close `days` bars before it, the
\* validation the last close up to the signal date with the close 3 bars
\* before it.
ComparedCloses ==
    LET bars == result.fetched.bars
        upto == IF result.op = "val_adjust"
                THEN SelectSeq(SortBars(SeqSet(bars)), LAMBDA b : b.date <= args.signal_date)
                ELSE SortBars(SeqSet(bars))
        n == Len(upto)
    IN IF result.fetched.state # "df" \/ n < 2 THEN <<>>
       ELSE LET ref == upto[SetMax({1, n - 3})].close
            IN IF ref <= 0 THEN <<>> ELSE <<upto[n].close, ref>>

\* The table of C15 for sentiment s and prior return r.
AdjusterTable(s, r) ==
    IF (RatLt(Zero, s) /\ RatLt(Rat(3, 100), r)) \/ (RatLt(s, Zero) /\ RatLt(r, Rat(-3, 100)))
    THEN RatMul(Rat(3, 10), s)
    ELSE IF (RatLt(Zero, s) /\ RatLt(r, Rat(-1, 100))) \/ (RatLt(s, Zero) /\ RatLt(Rat(1, 100), r))
    THEN RatMul(Rat(3, 2), s)
    ELSE s

VolumeTable(c, num, den) ==
    IF c * den >= 3 * num THEN Rat(-5, 10)
    ELSE IF c * den >= 2 * num THEN Rat(-2, 10)
    ELSE IF 2 * c * den < num THEN Rat(1, 10)
    ELSE Zero

MixedAggregate ==
    /\ ~is_buy_candidate(agg)
    /\ ~is_sell_candidate(agg)
    /\ agg.news_count >= 5
    /\ RatLe(Rat(-1, 10), agg.avg_sentiment)
    /\ RatLe(agg.avg_sentiment, Rat(1, 10))
    /\ agg.positive_count > 0
    /\ agg.negative_count > 0

\* C17: a mixed aggregate is classified watch, both among the candidates of
\* analyze_today_stocks and by the signal of get_stock_signal.
C17_WatchClassification ==
    MixedAggregate =>
        /\ result.op = "candidates" => result.watch
        /\ result.op = "signal" => result.value.signal = "watch"

\* C18: the score of calculate_sentiment_score lies in [-1, 1] and is exactly
\* 0.0 for the empty text; the sentiment_score analyze_news stores lies in
\* [-1, 1] for every title, content and strong keywords in the title.
C18_SentimentRange ==
    /\ result.op = "calculate_sentiment_score" =>
         /\ RatLe(Rat(-1, 1), result.score) /\ RatLe(result.score, One)
         /\ args.title = <<>> => result.score = Zero
    /\ result.op = "analyze_news" =>
         RatLe(Rat(-1, 1), result.sentiment_score) /\ RatLe(result.sentiment_score, One)

\* An article whose title and content score +1 and whose title holds a strong
\* positive keyword: 1.0 + 0.3 is stored as 1.0.
C18_Witness ==
    /\ result.op = "analyze_news"
    /\ result.title_sentiment = One
    /\ result.content_sentiment = One
    /\ result.strong_pos
    /\ ~result.strong_neg
    /\ result.sentiment_score = One

\* Step 4 of the specification: the score of the ratio step for the
\* effective counts (pos, neg).
RatioStep(pos, neg) ==
    IF neg > pos THEN RatSub(Zero, RatMin(One, Rat(neg, pos + 1)))
    ELSE IF pos > neg THEN RatMin(One, Rat(pos, neg + 1))
    ELSE Zero

\* C19: the +/-0.5 fallback is applied only when the ratio step gave exactly
\* 0 while one side has hits and the other none; a non-zero score of the
\* ratio step is the score returned, never replaced by +/-0.5.
C19_FallbackOnlyOnZero ==
    (result.op = "calculate_sentiment_score" /\ args.title # <<>>) =>
        LET pos == result.counts.positive_count
            neg == result.counts.negative_count
        IN /\ RatioStep(pos, neg) # Zero => result.score = RatioStep(pos, neg)
           /\ result.score # RatioStep(pos, neg) =>
                /\ RatioStep(pos, neg) = Zero
                /\ (pos > 0 /\ neg = 0) \/ (neg > 0 /\ pos = 0)
                /\ result.score = (IF pos > 0 THEN Rat(1, 2) ELSE Rat(-1, 2))

\* A title with hits on the positive side only: the ratio step gives 1.0 and
\* 1.0 is returned.
C19_Witness ==
    /\ result.op = "calculate_sentiment_score"
    /\ result.counts.positive_count > 0
    /\ result.counts.negative_count = 0
    /\ result.score = One

\* The compound expressions of positive polarity that embed a keyword of the
\* negative lexicon.
EmbeddingCompounds ==
    {e \in SeqSet(COMPOUND_EXPRESSIONS) :
        /\ e.sentiment > 0
        /\ \E i \in 1..Len(NEGATIVE_KEYWORDS) : contains(e.expr, NEGATIVE_KEYWORDS[i])}

\* The text bears no sentiment: no keyword of either lexicon and no compound
\* expression occurs in it.
Neutral(text) ==
    /\ \A i \in 1..Len(POSITIVE_KEYWORDS) : ~contains(text, POSITIVE_KEYWORDS[i])
    /\ \A i \in 1..Len(NEGATIVE_KEYWORDS) : ~contains(text, NEGATIVE_KEYWORDS[i])
    /\ \A i \in 1..Len(COMPOUND_EXPRESSIONS) : ~contains(text, COMPOUND_EXPRESSIONS[i].expr)

\* The only sentiment-bearing content of the text is one occurrence of the
\* expression: what is before it and what is after it is neutral.
OnlyOccurrence(text, expr) ==
    \E pos \in 0..Len(text) :
        /\ MatchAt(text, expr, pos)
        /\ Neutral(SubSeq(text, 1, pos))
        /\ Neutral(SubSeq(text, pos + Len(expr) + 1, Len(text)))

NegWords == split(args.text)

\* The word at place i is inverted: one of the (at most 2) words before it
\* contains a negation marker.
Inverted(i) ==
    \E j \in {i - 2, i - 1} \cap (1..Len(NegWords)) :
        \E k \in 1..Len(NEGATION_WORDS) : contains(NegWords[j], NEGATION_WORDS[k])

\* The occurrences of a keyword word that are inverted, and those that are not.
InvertedPlaces(word) == {i \in 1..Len(NegWords) : NegWords[i] = word /\ Inverted(i)}

PlainPlaces(word) == {i \in 1..Len(NegWords) : NegWords[i] = word /\ ~Inverted(i)}

\* C21: an occurrence of a positive keyword counts as negative exactly when
\* one of the (at most 2) words before it contains a negation marker, and as
\* positive otherwise; symmetrically for a negative keyword; a marker further
\* back than the window, or after the keyword, does not invert.
C21_NegationWindow ==
    /\ (result.op = "_count_with_negation" /\ result.lexicon = "positive") =>
         result.count = [normal |-> Cardinality(PlainPlaces(SANGSEUNG)),
                         negated |-> Cardinality(InvertedPlaces(SANGSEUNG))]
    /\ (result.op = "_count_with_negation" /\ result.lexicon = "negative") =>
         result.count = [normal |-> Cardinality(PlainPlaces(HARAK)),
                         negated |-> Cardinality(InvertedPlaces(HARAK))]
    /\ result.op = "effective_counts" =>
         result.counts =
           [positive_count |-> Cardinality(PlainPlaces(SANGSEUNG))
                                 + Cardinality(InvertedPlaces(HARAK)),
            negative_count |-> Cardinality(PlainPlaces(HARAK))
                                 + Cardinality(InvertedPlaces(SANGSEUNG))]

\* The negation word three words before the positive keyword: the occurrence
\* is counted as it stands.
C21_Witness ==
    /\ result.op = "_count_with_negation"
    /\ result.lexicon = "positive"
    /\ args.text = AN \o <<32>> \o JUGA \o <<32>> \o JUGA \o <<32>> \o SANGSEUNG
    /\ result.count = [normal |-> 1, negated |-> 0]


\* The combinations the loop under way has finished.
FinishedBuy == {BUY_COMBOS[i] : i \in 1..combo_k}

FinishedSell == {SELL_COMBOS[i] : i \in 1..combo_k}

\* C22: evaluating a threshold combination leaves daily_stats, returns_map
\* and the benchmark as they were at the call, and a grid search stopped
\* after k combinations holds exactly the results an uninterrupted run over
\* the same inputs holds for those k combinations: no result depends on the
\* combinations evaluated before it.
C22_CancellationSafe ==
    /\ daily_stats = full_run.daily_stats
    /\ returns_map = full_run.returns_map
    /\ benchmark = full_run.benchmark
    /\ grid_pc = "benchmark" =>
          buy_results = {r \in full_run.buy :
                            <<r.sentiment, r.overall, r.count, r.ratio>> \in FinishedBuy}
    /\ grid_pc \in {"buy", "sell"} => buy_results = full_run.buy
    /\ grid_pc = "buy" =>
          sell_results = {r \in full_run.sell :
                             <<r.sentiment, r.overall, r.count, r.neg_ratio>> \in FinishedSell}
    /\ grid_pc = "sell" => sell_results = full_run.sell

\* A buy search stopped half-way that holds some but not all of the results
\* of the full run, the last combination having selected too few stock-days
\* after one that was reported.
C22_Witness ==
    /\ grid_pc = "benchmark"
    /\ combo_k > 0
    /\ combo_k < Len(BUY_COMBOS)
    /\ buy_results # {}
    /\ buy_results # full_run.buy
    /\ Cardinality(loop_locals.selected) < MIN_BUY_SAMPLES
    /\ loop_locals.best_excess # None


\* The stored rows naming the stock asked for that were published on the day
\* of the call.
PublishedToday ==
    SelectSeq(Mentions(news, result.stock_code), LAMBDA n : DayOf(n.published_at) = result.date)

\* C23: get_stock_signal(stock_code, days=1) analyzes the articles published
\* on the day of the call and no other: an article of the day before never
\* contributes.
C23_SignalWindow ==
    result.op = "get_stock_signal" => result.value.news_count = Len(PublishedToday)


\* C24: two consecutive runs of collect_all_news, the immediate run of
\* start() included, are separated by at least the interval in force at the
\* later run: 1 minute during market hours, 5 minutes on a weekday outside
\* them, 30 minutes on a weekend.
C24_CollectionCadence ==
    \A i \in 1..(Len(collections) - 1) :
        collections[i + 1] - collections[i] >= get_collection_interval(collections[i + 1])


\* The stored row of a news_id.
StoredRow(news_id) == news[CHOOSE i \in 1..Len(news) : news[i].news_id = news_id]

\* C25: after reprocess_data, the stored row of every article it updated
\* carries the scores, the content and the related_stocks it computed.
C25_ReprocessPersists ==
    result.op = "reprocess_data" =>
        \A i \in 1..Len(result.updates) :
            LET u == result.updates[i]
                row == StoredRow(u.news_id)
            IN /\ row.sentiment_score = u.sentiment_score
               /\ row.importance_score = u.importance_score
               /\ row.impact_score = u.impact_score
               /\ row.timeliness_score = u.timeliness_score
               /\ row.overall_score = u.overall_score
               /\ row.content = u.content
               /\ row.related_stocks = u.related_stocks


\* The positions in the call history of the calls of insert_news with a
\* news_id.
CallsWith(news_id) ==
    {i \in 1..Len(insert_calls) : insert_calls[i].news_data.news_id = news_id}

\* The dict of the first call of insert_news with a news_id.
FirstInsertion(news_id) == insert_calls[SetMin(CallsWith(news_id))].news_data

Compared(candidates) ==
    {[stock_code |-> s.stock_code, news_count |-> s.news_count,
      avg_sentiment |-> s.avg_sentiment, avg_overall |-> s.avg_overall,
      positive_count |-> s.positive_count, negative_count |-> s.negative_count] :
        s \in candidates}

\* The two analyses of the day's articles.
LiveToday ==
    analyze_today_stocks(news, today, fetch_latest(market, CodesOf(replay_news)),
                         load_volume_cache(news))

BacktestToday == val_analyze_stocks_for_date(news, today, price_cache, load_volume_cache(news))

\* C26: on the articles of one date, analyze_stocks_for_date of
\* validate_signals yields the same buy candidates and the same sell
\* candidates (codes, news_count, averages, counts) as analyze_today_stocks
\* yields when that date is today.
C26_BacktestReplaysLive ==
    /\ result.op = "analyze_today_stocks" =>
          /\ Compared(result.value.buy_candidates) = Compared(BacktestToday.buy_candidates)
          /\ Compared(result.value.sell_candidates) = Compared(BacktestToday.sell_candidates)
    /\ result.op = "validate_signals.analyze_stocks_for_date" =>
          /\ Compared(result.value.buy_candidates) = Compared(LiveToday.buy_candidates)
          /\ Compared(result.value.sell_candidates) = Compared(LiveToday.sell_candidates)


\* The two analyses of the day's articles with the overlays out of the way:
\* the provider returns nothing, no price cache is given, and the volume
\* cache is empty.
LivePlain ==
    analyze_today_stocks(news, today, [c \in CodesOf(replay_news) |-> Failed], <<>>)

BacktestPlain ==
    val_analyze_stocks_for_date(news, today, [c \in StockCodes |-> Absent], <<>>)

\* C27: the price-reaction adjustment and the volume signal never change
\* which stocks are buy, sell or watch candidates, nor the statistics the
\* membership is decided on: both analyses list the stocks they list with
\* the overlays out of the way.
C27_OverlaysKeepMembership ==
    /\ result.op = "analyze_today_stocks" =>
          /\ Compared(result.value.stock_stats) = Compared(LivePlain.stock_stats)
          /\ Compared(result.value.buy_candidates) = Compared(LivePlain.buy_candidates)
          /\ Compared(result.value.sell_candidates) = Compared(LivePlain.sell_candidates)
          /\ Compared(result.value.watch_candidates) = Compared(LivePlain.watch_candidates)
    /\ result.op = "validate_signals.analyze_stocks_for_date" =>
          /\ Compared(result.value.all_stocks) = Compared(BacktestPlain.all_stocks)
          /\ Compared(result.value.buy_candidates) = Compared(BacktestPlain.buy_candidates)
          /\ Compared(result.value.sell_candidates) = Compared(BacktestPlain.sell_candidates)

\* A live buy candidate whose sentiment the price reaction has cut below the
\* buy threshold and whose volume signal is not 0.
C27_Witness ==
    /\ result.op = "analyze_today_stocks"
    /\ \E s \in result.value.buy_candidates :
          /\ RatLt(s.adjusted_sentiment, Rat(BUY_SENTIMENT, 100))
          /\ s.volume_signal # Zero
          /\ s.composite_score
                # (CHOOSE t \in LivePlain.buy_candidates : t.stock_code = s.stock_code).composite_score


\* C28: calculate_sentiment_score saturates: it returns exactly +1.0 when the
\* effective positive count exceeds the negative one, exactly -1.0 when the
\* negative count exceeds the positive one, and 0.0 when they are equal; no
\* text gets a score strictly between 0 and 1 in absolute value, so the
\* fallback of 0.5 or -0.5 is never the result.
C28_Saturation ==
    result.op = "calculate_sentiment_score" =>
        /\ result.counts.positive_count > result.counts.negative_count => result.score = One
        /\ result.counts.negative_count > result.counts.positive_count
              => result.score = Rat(-1, 1)
        /\ result.counts.positive_count = result.counts.negative_count => result.score = Zero
        /\ result.score \in {Rat(-1, 1), Zero, One}

\* A text with two positive keywords and one negative keyword scores 1.0.
C28_Witness ==
    /\ result.op = "calculate_sentiment_score"
    /\ result.counts = [positive_count |-> 2, negative_count |-> 1]
    /\ result.score = One


\* The signal get_stock_signal decides from the statistics of an aggregate.
SignalOf(s) ==
    stock_signal(s.avg_sentiment, s.avg_overall, s.news_count,
                 s.positive_count, s.negative_count).signal

\* C29: on the same statistics, with positive_count + negative_count <=
\* news_count, get_stock_signal answers buy exactly when analyze_today_stocks
\* lists the stock as a buy candidate and sell exactly when it lists it as a
\* sell candidate, although only the candidate list tests positive_count >
\* negative_count; and no aggregate is a buy and a sell candidate at once.
C29_SignalAgreesWithCandidates ==
    agg.positive_count + agg.negative_count <= agg.news_count =>
        /\ result.op = "signal" =>
             /\ (result.value.signal = "buy") <=> is_buy_candidate(agg)
             /\ (result.value.signal = "sell") <=> is_sell_candidate(agg)
        /\ result.op = "candidates" =>
             /\ result.buy <=> (SignalOf(agg) = "buy")
             /\ result.sell <=> (SignalOf(agg) = "sell")
             /\ ~(result.buy /\ result.sell)

\* A sell candidate whose aggregate also holds positive rows was listed.
C29_Witness ==
    /\ result.op = "candidates"
    /\ result.sell
    /\ ~result.buy
    /\ agg.positive_count > 0
    /\ agg.positive_count + agg.negative_count < agg.news_count

====
